---- MODULE Spec2Model ----
(***************************************************************************)
(* A model of the text-search engine of the repository: the inverted      *)
(* index (partie1_corpus_et_index.py), its compression, maintenance and   *)
(* parallel construction (partie2_compression_maintenance.py) and the     *)
(* ranking models (tp2_modeles).                                          *)
(***************************************************************************)
EXTENDS Integers, Sequences, FiniteSets, TLC

VARIABLES
    index,           \* InvertedIndex.index : term -> set of doc ids
    doc_freq,        \* InvertedIndex.doc_freq : term -> count
    is_defaultdict,  \* TRUE while InvertedIndex.index is the defaultdict(set) of __init__
    file,            \* the JSON file written by save_index
    last,            \* the public operation that completed last, and whether it raised
    gap,             \* a run of compress_gap_encoding / decompress_gap_encoding
    vb,              \* a run of compress_variable_byte / decompress_variable_byte
    bool,            \* a ModeleBooleen instance and one search_and call
    par,             \* a run of ParallelIndexBuilder.build_index_parallel
    bm,              \* a ModeleProbabiliste instance and its calls
    rank,            \* an index, the four models built on it, and one call
    proc             \* a CorpusProcessor: its construction and its preprocess_text calls

vars == <<index, doc_freq, is_defaultdict, file, last, gap, vb, bool, par, bm, rank, proc>>
indexVars == <<index, doc_freq, is_defaultdict, file, last>>

----------------------------------------------------------------------------
(* Bounds of the model *)

MaxDocId == 2
MaxTokens == 2
MaxCorpus == 2
MaxDf == 2

Terms == {"a", "b"}
DocIds == 1..MaxDocId

----------------------------------------------------------------------------
(* Python dict and list helpers *)

EmptyDict == [x \in {} |-> {}]

Get(d, k, default) == IF k \in DOMAIN d THEN d[k] ELSE default

Put(d, k, v) == [x \in (DOMAIN d) \cup {k} |-> IF x = k THEN v ELSE d[x]]

Del(d, ks) == [x \in (DOMAIN d) \ ks |-> d[x]]

ToSet(s) == {s[i] : i \in 1..Len(s)}

SeqsUpTo(S, n) == UNION {[1..k -> S] : k \in 0..n}

MinOf(S) == CHOOSE x \in S : \A y \in S : x <= y

RECURSIVE SortedList(_)
SortedList(S) ==
    IF S = {} THEN <<>>
    ELSE LET m == MinOf(S) IN <<m>> \o SortedList(S \ {m})

TokenLists == SeqsUpTo(Terms, MaxTokens)
Documents == [id : DocIds, tokens : TokenLists]
\* A corpus gives each document its own id.
Corpora ==
    {c \in SeqsUpTo(Documents, MaxCorpus) :
        \A i, j \in 1..Len(c) : c[i].id = c[j].id => i = j}

----------------------------------------------------------------------------
(* InvertedIndex and IndexMaintenance, as functions of the index object    *)
(* st = [index, doc_freq, dd]; an operation yields the set of outcomes     *)
(* [index, doc_freq, dd, err] it can end in.                               *)

Obj(i, f, d) == [index |-> i, doc_freq |-> f, dd |-> d]

Ok(st) == [index |-> st.index, doc_freq |-> st.doc_freq, dd |-> st.dd, err |-> "none"]

Raised(st, e) == [index |-> st.index, doc_freq |-> st.doc_freq, dd |-> st.dd, err |-> e]

NewIndex == Obj(EmptyDict, EmptyDict, TRUE)

\* index[token].add(doc_id); doc_freq[token] = doc_freq.get(token, 0) + 1
AddToken(st, doc_id, token) ==
    [st EXCEPT !.index = Put(st.index, token, Get(st.index, token, {}) \cup {doc_id}),
               !.doc_freq = Put(st.doc_freq, token, Get(st.doc_freq, token, 0) + 1)]

RECURSIVE AddTokens(_, _, _)
AddTokens(st, doc_id, tokens) ==
    IF tokens = {} THEN st
    ELSE LET t == CHOOSE x \in tokens : TRUE
         IN AddTokens(AddToken(st, doc_id, t), doc_id, tokens \ {t})

\* index[token] on a plain dict raises KeyError for an absent key; the
\* defaultdict creates the key.
MissingKeys(st, keys) == IF st.dd THEN {} ELSE keys \ DOMAIN st.index

\* The loop over set(tokens): the iteration order of a set of strings is not
\* fixed, so the tokens handled before a KeyError are any subset of the
\* tokens that are present.
AddUnique(st, doc_id, unique_tokens) ==
    LET missing == MissingKeys(st, unique_tokens)
    IN IF missing = {}
       THEN {Ok(AddTokens(st, doc_id, unique_tokens))}
       ELSE {Raised(AddTokens(st, doc_id, done), "KeyError") :
                done \in SUBSET (unique_tokens \ missing)}

add_document(st, doc_id, tokens) == AddUnique(st, doc_id, ToSet(tokens))

\* remove_document that deletes every term the document is posted under.
remove_document_drop_terms(st, doc_id) ==
    LET hit == {t \in DOMAIN st.index : doc_id \in st.index[t]}
    IN Ok(Obj(Del(st.index, hit), Del(st.doc_freq, hit), st.dd))

remove_document(st, doc_id) ==
    LET hit == {t \in DOMAIN st.index : doc_id \in st.index[t]}
        df == [t \in DOMAIN st.doc_freq |->
                  IF t \in hit THEN st.doc_freq[t] - 1 ELSE st.doc_freq[t]]
        terms_to_remove == {t \in hit : df[t] = 0}
        ix == [t \in DOMAIN st.index |-> st.index[t] \ {doc_id}]
    IN Ok(Obj(Del(ix, terms_to_remove), Del(df, terms_to_remove), st.dd))

update_document(st, doc_id, new_tokens) ==
    add_document(remove_document(st, doc_id), doc_id, new_tokens)

RECURSIVE BuildFrom(_, _, _)
BuildFrom(st, docs, i) ==
    IF i > Len(docs) THEN {Ok(st)}
    ELSE LET outs == AddUnique(st, docs[i].id, ToSet(docs[i].tokens))
         IN UNION {IF o.err = "none"
                   THEN BuildFrom(Obj(o.index, o.doc_freq, o.dd), docs, i + 1)
                   ELSE {o} : o \in outs}

build_index(st, processed_documents) ==
    BuildFrom(Obj(EmptyDict, EmptyDict, st.dd), processed_documents, 1)

\* index[term].update(doc_ids); doc_freq[term] = len(index[term])
MergeTerm(st, term, doc_ids) ==
    LET merged == Get(st.index, term, {}) \cup doc_ids
    IN [st EXCEPT !.index = Put(st.index, term, merged),
                  !.doc_freq = Put(st.doc_freq, term, Cardinality(merged))]

RECURSIVE MergeTerms(_, _, _)
MergeTerms(st, other_index, terms) ==
    IF terms = {} THEN st
    ELSE LET t == CHOOSE x \in terms : TRUE
         IN MergeTerms(MergeTerm(st, t, other_index[t]), other_index, terms \ {t})

\* other_index is iterated in its own key order, which the caller decides.
merge_indexes(st, other_index) ==
    LET missing == MissingKeys(st, DOMAIN other_index)
    IN IF missing = {}
       THEN {Ok(MergeTerms(st, other_index, DOMAIN other_index))}
       ELSE {Raised(MergeTerms(st, other_index, done), "KeyError") :
                done \in SUBSET ((DOMAIN other_index) \ missing)}

get_posting_list(ix, term) == Get(ix, term, {})

\* {term: sorted(list(doc_ids))}
save_index(st) == [t \in DOMAIN st.index |-> SortedList(st.index[t])]

\* load_index that empties the index before it reads the file.
load_index_clear_first(st, f) ==
    IF ~f.exists THEN Raised(Obj(EmptyDict, EmptyDict, FALSE), "FileNotFoundError")
    ELSE IF f.kind = "text" THEN Raised(Obj(EmptyDict, EmptyDict, FALSE), "JSONDecodeError")
    ELSE IF f.kind = "list" THEN Raised(Obj(EmptyDict, EmptyDict, FALSE), "AttributeError")
    ELSE Ok(Obj([t \in DOMAIN f.content |-> ToSet(f.content[t])],
                [t \in DOMAIN f.content |-> Len(f.content[t])],
                FALSE))

\* open() raises for a missing file and json.load for a file that is not
\* JSON (lines 439-440); index_dict.items() raises for JSON that is not an
\* object (line 444); self.index and self.doc_freq are assigned after that
load_index(st, f) ==
    IF ~f.exists THEN Raised(st, "FileNotFoundError")
    ELSE IF f.kind = "text" THEN Raised(st, "JSONDecodeError")
    ELSE IF f.kind = "list" THEN Raised(st, "AttributeError")
    ELSE Ok(Obj([t \in DOMAIN f.content |-> ToSet(f.content[t])],
                [t \in DOMAIN f.content |-> Len(f.content[t])],
                FALSE))

\* maintenance.add_document(21, new_tokens); maintenance.remove_document(21):
\* an exception of add_document ends the sequence before remove_document
add_then_remove(st, doc_id, tokens) ==
    {IF o.err = "none"
     THEN remove_document(Obj(o.index, o.doc_freq, o.dd), doc_id)
     ELSE o : o \in add_document(st, doc_id, tokens)}

----------------------------------------------------------------------------
(* The index and its public operations as a state machine *)

Cur == Obj(index, doc_freq, is_defaultdict)

\* A file is the JSON object save_index writes ("index"), JSON of another
\* shape ("list"), or not JSON at all ("text").
NoFile == [exists |-> FALSE, kind |-> "index", content |-> EmptyDict]

\* Another index instance's postings, as passed to merge_indexes.
OtherIndexes ==
    UNION {[T -> (SUBSET DocIds) \ {{}}] : T \in SUBSET Terms}

\* The bound of the model on doc_freq, a counter that add_document of an id
\* already posted raises without limit: the steps that would take a
\* doc_freq past MaxDf are left out of the state space.
InBounds(o) == \A t \in DOMAIN o.doc_freq : o.doc_freq[t] <= MaxDf

Become(o, op, doc_id, corpus) ==
    /\ InBounds(o)
    /\ index' = o.index
    /\ doc_freq' = o.doc_freq
    /\ is_defaultdict' = o.dd
    /\ last' = [op |-> op, doc |-> doc_id, corpus |-> corpus, err |-> o.err]

Idle == [pc |-> "idle"]

InitIndex ==
    /\ index = EmptyDict
    /\ doc_freq = EmptyDict
    /\ is_defaultdict = TRUE
    /\ file = NoFile
    /\ last = [op |-> "init", doc |-> 0, corpus |-> <<>>, err |-> "none"]

IdleIndex == InitIndex

Init ==
    /\ InitIndex
    /\ gap = Idle /\ vb = Idle /\ bool = Idle /\ par = Idle /\ bm = Idle /\ rank = Idle /\ proc = Idle

BuildIndex(corpus) ==
    /\ \E o \in build_index(Cur, corpus) : Become(o, "build_index", 0, corpus)
    /\ UNCHANGED <<file, gap, vb, bool, par, bm, rank, proc>>

AddDocument(doc_id, tokens) ==
    /\ \E o \in add_document(Cur, doc_id, tokens) : Become(o, "add_document", doc_id, <<>>)
    /\ UNCHANGED <<file, gap, vb, bool, par, bm, rank, proc>>

RemoveDocument(doc_id) ==
    /\ Become(remove_document(Cur, doc_id), "remove_document", doc_id, <<>>)
    /\ UNCHANGED <<file, gap, vb, bool, par, bm, rank, proc>>

UpdateDocument(doc_id, tokens) ==
    /\ \E o \in update_document(Cur, doc_id, tokens) : Become(o, "update_document", doc_id, <<>>)
    /\ UNCHANGED <<file, gap, vb, bool, par, bm, rank, proc>>

MergeIndexes(other) ==
    /\ \E o \in merge_indexes(Cur, other) : Become(o, "merge_indexes", 0, <<>>)
    /\ UNCHANGED <<file, gap, vb, bool, par, bm, rank, proc>>

SaveIndex ==
    /\ file' = [exists |-> TRUE, kind |-> "index", content |-> save_index(Cur)]
    /\ last' = [op |-> "save_index", doc |-> 0, corpus |-> <<>>, err |-> "none"]
    /\ UNCHANGED <<index, doc_freq, is_defaultdict, gap, vb, bool, par, bm, rank, proc>>

LoadIndex ==
    /\ Become(load_index(Cur, file), "load_index", 0, <<>>)
    /\ UNCHANGED <<file, gap, vb, bool, par, bm, rank, proc>>

AddThenRemove(doc_id, tokens) ==
    /\ \E o \in add_then_remove(Cur, doc_id, tokens) : Become(o, "add_then_remove", doc_id, <<>>)
    /\ UNCHANGED <<file, gap, vb, bool, par, bm, rank, proc>>

\* index.get(term, set()) reads the dict and stores nothing, on the
\* defaultdict as on the plain dict
GetPostingList(term) ==
    /\ get_posting_list(index, term) \in SUBSET DocIds
    /\ last' = [op |-> "get_posting_list", doc |-> 0, corpus |-> <<>>, err |-> "none"]
    /\ UNCHANGED <<index, doc_freq, is_defaultdict, file, gap, vb, bool, par, bm, rank, proc>>

Next ==
    \/ \E corpus \in Corpora : BuildIndex(corpus)
    \/ \E d \in DocIds, toks \in TokenLists : AddDocument(d, toks)
    \/ \E d \in DocIds : RemoveDocument(d)
    \/ \E d \in DocIds, toks \in TokenLists : UpdateDocument(d, toks)
    \/ \E other \in OtherIndexes : MergeIndexes(other)
    \/ SaveIndex
    \/ LoadIndex
    \/ \E d \in DocIds, toks \in TokenLists : AddThenRemove(d, toks)
    \/ \E term \in Terms \cup {"zz"} : GetPostingList(term)

Spec == Init /\ [][Next]_vars

\* The index objects the operations above can produce: index and doc_freq
\* have the same terms, doc_freq[t] >= |index[t]| (add_document of an id that
\* is already posted raises doc_freq alone), and doc_freq[t] = 0 only for an
\* empty posting list read back by load_index.
IndexObjects ==
    {Obj(ix, df, dd) :
        ix \in UNION {[T -> SUBSET DocIds] : T \in SUBSET Terms},
        df \in UNION {[T -> 0..MaxDf] : T \in SUBSET Terms},
        dd \in BOOLEAN}

IsIndexObject(st) ==
    /\ DOMAIN st.index = DOMAIN st.doc_freq
    /\ \A t \in DOMAIN st.index :
          /\ st.doc_freq[t] >= Cardinality(st.index[t])
          /\ st.doc_freq[t] >= (IF st.dd THEN 1 ELSE 0)

\* IndexMaintenance on any index object it can be given.
InitMaint ==
    /\ \E st \in IndexObjects :
          /\ IsIndexObject(st)
          /\ index = st.index
          /\ doc_freq = st.doc_freq
          /\ is_defaultdict = st.dd
    /\ file = NoFile
    /\ last = [op |-> "init", doc |-> 0, corpus |-> <<>>, err |-> "none"]
    /\ gap = Idle /\ vb = Idle /\ bool = Idle /\ par = Idle /\ bm = Idle /\ rank = Idle /\ proc = Idle

NextMaint ==
    \/ \E d \in DocIds, toks \in TokenLists : AddDocument(d, toks)
    \/ \E d \in DocIds : RemoveDocument(d)
    \/ \E d \in DocIds, toks \in TokenLists : UpdateDocument(d, toks)
    \/ \E other \in OtherIndexes : MergeIndexes(other)
    \/ \E d \in DocIds, toks \in TokenLists : AddThenRemove(d, toks)

SpecMaint == InitMaint /\ [][NextMaint]_vars

\* The files load_index can be pointed at.
LoadFiles ==
    {NoFile,
     [exists |-> TRUE, kind |-> "text", content |-> EmptyDict],
     [exists |-> TRUE, kind |-> "list", content |-> EmptyDict]}
    \cup {[exists |-> TRUE, kind |-> "index", content |-> save_index(st)] : st \in IndexObjects}

\* load_index and save_index on any index object and any file.
InitLoad ==
    /\ \E st \in IndexObjects :
          /\ IsIndexObject(st)
          /\ index = st.index
          /\ doc_freq = st.doc_freq
          /\ is_defaultdict = st.dd
    /\ file \in LoadFiles
    /\ last = [op |-> "init", doc |-> 0, corpus |-> <<>>, err |-> "none"]
    /\ gap = Idle /\ vb = Idle /\ bool = Idle /\ par = Idle /\ bm = Idle /\ rank = Idle /\ proc = Idle

NextLoad ==
    \/ LoadIndex
    \/ SaveIndex

SpecLoad == InitLoad /\ [][NextLoad]_vars

\* Every state of Spec holds one of these index objects.
ReachableIsIndexObject == IsIndexObject(Cur)

----------------------------------------------------------------------------
(* Properties of the index operations *)

DocAbsent(doc_id) == \A t \in DOMAIN index : doc_id \notin index[t]

\* The index a corpus determines: each term maps to the ids of the documents
\* whose tokens contain it.
CorpusTerms(corpus) == UNION {ToSet(corpus[i].tokens) : i \in 1..Len(corpus)}

ExpectedIndex(corpus) ==
    [t \in CorpusTerms(corpus) |->
        {corpus[i].id : i \in {j \in 1..Len(corpus) : t \in ToSet(corpus[j].tokens)}}]

ExpectedDocFreq(corpus) ==
    [t \in CorpusTerms(corpus) |-> Cardinality(ExpectedIndex(corpus)[t])]

\* C1: after every public index operation, doc_freq and index have the same
\* terms and doc_freq[t] = |index[t]| for every term t.
C1_DocFreqEqualsPostings ==
    /\ DOMAIN doc_freq = DOMAIN index
    /\ \A t \in DOMAIN index : doc_freq[t] = Cardinality(index[t])

\* C2: add_document(doc_id, terms) followed by remove_document(doc_id) leaves
\* index and doc_freq as they were before the add; stated here for the
\* doc_ids that are in no posting list before the add, a case of the claim's
\* "every index state and every (doc_id, terms)".
C2_AddRemoveRestores ==
    [][(last'.op = "add_then_remove" /\ DocAbsent(last'.doc))
          => (index' = index /\ doc_freq' = doc_freq)]_vars

\* C3: build_index(corpus) from any prior state yields exactly the index the
\* corpus determines, with doc_freq[t] = |index[t]|.
C3_BuildDependsOnCorpusAlone ==
    last.op = "build_index" =>
        /\ index = ExpectedIndex(last.corpus)
        /\ doc_freq = ExpectedDocFreq(last.corpus)

\* C8: load_index right after save_index yields the terms, postings and
\* doc_freq of the saved index, with doc_freq equal to the posting cardinality.
C8_SaveLoadRoundTrip ==
    [][(last.op = "save_index" /\ LoadIndex) =>
          (/\ index' = index
           /\ doc_freq' = doc_freq
           /\ \A t \in DOMAIN index' : doc_freq'[t] = Cardinality(index'[t]))]_vars

Postings(ix, t) == Get(ix, t, {})

\* C25: in every reachable state, loaded ones included, add_document ends
\* without error with doc_id in the postings of each of its terms and the
\* postings of the other terms unchanged.
C25_AddDocumentAlwaysSucceeds ==
    [][last'.op = "add_document" =>
          /\ last'.err = "none"
          /\ \A toks \in TokenLists :
                AddDocument(last'.doc, toks) =>
                   /\ \A t \in ToSet(toks) : last'.doc \in Postings(index', t)
                   /\ \A t \in Terms \ ToSet(toks) :
                         Postings(index', t) = Postings(index, t)]_vars

\* C26: remove_document(doc_id) on an index with doc_freq[t] = |index[t]|
\* leaves doc_id in no posting list, deletes from index and doc_freq the terms
\* whose only document it was, keeps every other membership, and changes
\* nothing when doc_id is in no posting list.
C26_RemoveDocumentRemovesOnlyIt ==
    [][(last'.op = "remove_document" /\ C1_DocFreqEqualsPostings) =>
          /\ \A t \in DOMAIN index' : last'.doc \notin index'[t]
          /\ \A t \in DOMAIN index :
                index[t] = {last'.doc} => (t \notin DOMAIN index' /\ t \notin DOMAIN doc_freq')
          /\ \A t \in Terms, e \in DocIds \ {last'.doc} :
                (e \in Postings(index', t)) <=> (e \in Postings(index, t))
          /\ DocAbsent(last'.doc) => (index' = index /\ doc_freq' = doc_freq)]_vars

\* A state right after remove_document in which a term is gone, another term
\* still has a document, and doc_freq counts the postings.
C26_Witness ==
    /\ last.op = "remove_document"
    /\ DocAbsent(last.doc)
    /\ C1_DocFreqEqualsPostings
    /\ DOMAIN index # Terms
    /\ \E t \in DOMAIN index : index[t] # {}

\* C27: after update_document(doc_id, new_terms), doc_id is in the postings
\* of t if and only if t is one of new_terms, and the postings of every other
\* document are as before.
C27_UpdateIsRemoveThenAdd ==
    [][last'.op = "update_document" =>
          \A toks \in TokenLists :
             UpdateDocument(last'.doc, toks) =>
                /\ \A t \in Terms :
                      (last'.doc \in Postings(index', t)) <=> (t \in ToSet(toks))
                /\ \A t \in Terms, e \in DocIds \ {last'.doc} :
                      (e \in Postings(index', t)) <=> (e \in Postings(index, t))]_vars

\* C28: after merge_indexes(other) on an index built in memory, the postings
\* of every term are the union of its postings before and other's, doc_freq
\* of every term is the size of that union, and a second merge of the same
\* other changes nothing.
C28_MergeIsUnion ==
    [][(last'.op = "merge_indexes" /\ is_defaultdict) =>
          \A other \in OtherIndexes :
             MergeIndexes(other) =>
                /\ \A t \in Terms :
                      /\ Postings(index', t) = Postings(index, t) \cup Postings(other, t)
                      /\ Get(doc_freq', t, 0) = Cardinality(Postings(index', t))
                /\ \A t \in (DOMAIN index) \ DOMAIN other :
                      /\ index'[t] = index[t]
                      /\ doc_freq'[t] = doc_freq[t]
                /\ \A o \in merge_indexes(Obj(index', doc_freq', is_defaultdict'), other) :
                      o.index = index' /\ o.doc_freq = doc_freq']_vars

\* C29: after any sequence of operations and lookups, every term of the
\* index has at least one document.
C29_NoEmptyPostingList == \A t \in DOMAIN index : index[t] # {}

\* C30: load_index of a missing file or of a file that is not JSON raises,
\* and a load_index that raises leaves index and doc_freq as they were.
C30_FailedLoadLeavesIndex ==
    [][last'.op = "load_index" =>
          /\ (~file.exists \/ file.kind = "text") => last'.err # "none"
          /\ last'.err # "none" =>
                /\ index' = index
                /\ doc_freq' = doc_freq
                /\ is_defaultdict' = is_defaultdict]_vars

\* A load_index that failed on a file that is not JSON, on an index that
\* holds documents.
C30_Witness ==
    /\ last.op = "load_index"
    /\ last.err = "JSONDecodeError"
    /\ file.exists
    /\ \E t \in DOMAIN index : index[t] # {}

----------------------------------------------------------------------------
(* CompressedIndex: gap encoding *)

MaxPostingId == 4
MaxPostingLen == 3

\* sorted(doc_ids) on a list: insertion of each element into a sorted list.
RECURSIVE InsertSorted(_, _)
InsertSorted(x, s) ==
    IF s = <<>> THEN <<x>>
    ELSE IF x <= Head(s) THEN <<x>> \o s
    ELSE <<Head(s)>> \o InsertSorted(x, Tail(s))

RECURSIVE Sorted(_)
Sorted(s) == IF s = <<>> THEN <<>> ELSE InsertSorted(Head(s), Sorted(Tail(s)))

\* The gaps computed from the list as given, without sorting it first.
compress_gap_unsorted(doc_ids) ==
    IF doc_ids = <<>> THEN <<>>
    ELSE [i \in 1..Len(doc_ids) |->
             IF i = 1 THEN doc_ids[1] ELSE doc_ids[i] - doc_ids[i - 1]]

compress_gap_encoding(doc_ids) ==
    IF doc_ids = <<>> THEN <<>>
    ELSE LET sorted_ids == Sorted(doc_ids)
         IN [i \in 1..Len(sorted_ids) |->
                IF i = 1 THEN sorted_ids[1] ELSE sorted_ids[i] - sorted_ids[i - 1]]

RECURSIVE DecodeGaps(_, _)
DecodeGaps(gaps, doc_ids) ==
    LET i == Len(doc_ids) + 1
    IN IF i > Len(gaps) THEN doc_ids
       ELSE DecodeGaps(gaps, Append(doc_ids, doc_ids[i - 1] + gaps[i]))

decompress_gap_encoding(gaps) ==
    IF gaps = <<>> THEN <<>> ELSE DecodeGaps(gaps, <<gaps[1]>>)

PostingLists == SeqsUpTo(1..MaxPostingId, MaxPostingLen)

InitGap ==
    /\ IdleIndex
    /\ gap \in {[pc |-> "input", doc_ids |-> ids, gaps |-> <<>>, decoded |-> <<>>] :
                   ids \in PostingLists}
    /\ vb = Idle /\ bool = Idle /\ par = Idle /\ bm = Idle /\ rank = Idle /\ proc = Idle

GapCompress ==
    /\ gap.pc = "input"
    /\ gap' = [gap EXCEPT !.pc = "compressed",
                          !.gaps = compress_gap_encoding(gap.doc_ids)]
    /\ UNCHANGED <<indexVars, vb, bool, par, bm, rank, proc>>

GapDecompress ==
    /\ gap.pc = "compressed"
    /\ gap' = [gap EXCEPT !.pc = "decompressed",
                          !.decoded = decompress_gap_encoding(gap.gaps)]
    /\ UNCHANGED <<indexVars, vb, bool, par, bm, rank, proc>>

NextGap == GapCompress \/ GapDecompress

SpecGap == InitGap /\ [][NextGap]_vars

NoDuplicates(s) == \A i, j \in 1..Len(s) : s[i] = s[j] => i = j

StrictlyIncreasing(s) == \A i \in 1..Len(s) - 1 : s[i] < s[i + 1]

\* C4: for a list of distinct positive ids, decoding the encoding gives the
\* strictly increasing list of the same ids; the first encoded element is the
\* least id and every later one is >= 1; the empty list encodes and decodes
\* to the empty list.
C4_GapRoundTrip ==
    (gap.pc = "decompressed" /\ NoDuplicates(gap.doc_ids)) =>
        /\ StrictlyIncreasing(gap.decoded)
        /\ ToSet(gap.decoded) = ToSet(gap.doc_ids)
        /\ Len(gap.decoded) = Len(gap.doc_ids)
        /\ Len(gap.gaps) = Len(gap.doc_ids)
        /\ gap.doc_ids # <<>> => gap.gaps[1] = MinOf(ToSet(gap.doc_ids))
        /\ \A i \in 2..Len(gap.gaps) : gap.gaps[i] >= 1
        /\ gap.doc_ids = <<>> => (gap.gaps = <<>> /\ gap.decoded = <<>>)

\* A decoded list of three distinct ids that were given out of order.
C4_Witness ==
    /\ gap.pc = "decompressed"
    /\ NoDuplicates(gap.doc_ids)
    /\ Len(gap.doc_ids) = 3
    /\ gap.doc_ids[1] > gap.doc_ids[2]
    /\ gap.decoded # gap.doc_ids

----------------------------------------------------------------------------
(* CompressedIndex: variable-byte encoding *)

MaxNumber == 17000

ContinuationBit == 128

RECURSIVE Pow2(_)
Pow2(n) == IF n = 0 THEN 1 ELSE 2 * Pow2(n - 1)

\* x | 128, x & 127 and x << shift on non-negative integers
OrContinuation(x) ==
    IF (x \div ContinuationBit) % 2 = 1 THEN x ELSE x + ContinuationBit

LowSevenBits(x) == x % ContinuationBit

ShiftLeft(x, shift) == x * Pow2(shift)

RECURSIVE compress_variable_byte(_)
compress_variable_byte(number) ==
    IF number >= 128
    THEN <<OrContinuation(number % 128)>> \o compress_variable_byte(number \div 128)
    ELSE <<number % 128>>

RECURSIVE DecodeBytes(_, _, _, _)
DecodeBytes(byte_data, i, number, shift) ==
    IF i > Len(byte_data) THEN number
    ELSE LET n == number + ShiftLeft(LowSevenBits(byte_data[i]), shift)
         IN IF byte_data[i] < 128 THEN n
            ELSE DecodeBytes(byte_data, i + 1, n, shift + 7)

\* The decoder with the shift advanced by a whole byte for each byte read.
RECURSIVE DecodeBytesShift8(_, _, _, _)
DecodeBytesShift8(byte_data, i, number, shift) ==
    IF i > Len(byte_data) THEN number
    ELSE LET n == number + ShiftLeft(LowSevenBits(byte_data[i]), shift)
         IN IF byte_data[i] < 128 THEN n
            ELSE DecodeBytesShift8(byte_data, i + 1, n, shift + 8)

decompress_variable_byte_shift8(byte_data) == DecodeBytesShift8(byte_data, 1, 0, 0)

decompress_variable_byte(byte_data) == DecodeBytes(byte_data, 1, 0, 0)

InitVb ==
    /\ IdleIndex
    /\ vb \in {[pc |-> "input", number |-> n, bytes |-> <<>>, decoded |-> 0] :
                  n \in 0..MaxNumber}
    /\ gap = Idle /\ bool = Idle /\ par = Idle /\ bm = Idle /\ rank = Idle /\ proc = Idle

VbCompress ==
    /\ vb.pc = "input"
    /\ vb' = [vb EXCEPT !.pc = "compressed",
                        !.bytes = compress_variable_byte(vb.number)]
    /\ UNCHANGED <<indexVars, gap, bool, par, bm, rank, proc>>

VbDecompress ==
    /\ vb.pc = "compressed"
    /\ vb' = [vb EXCEPT !.pc = "decompressed",
                        !.decoded = decompress_variable_byte(vb.bytes)]
    /\ UNCHANGED <<indexVars, gap, bool, par, bm, rank, proc>>

NextVb == VbCompress \/ VbDecompress

SpecVb == InitVb /\ [][NextVb]_vars

RECURSIVE Pow128(_)
Pow128(n) == IF n = 0 THEN 1 ELSE 128 * Pow128(n - 1)

\* C5: decoding the encoding of n >= 0 gives n; every byte but the last has
\* the continuation bit set, the last has it clear, and byte i carries the
\* i-th 7-bit group of n, least significant first.
C5_VarByteRoundTrip ==
    vb.pc = "decompressed" =>
        /\ vb.decoded = vb.number
        /\ Len(vb.bytes) >= 1
        /\ \A i \in 1..Len(vb.bytes) :
              /\ vb.bytes[i] \in 0..255
              /\ (vb.bytes[i] >= 128) <=> (i < Len(vb.bytes))
              /\ vb.bytes[i] % 128 = (vb.number \div Pow128(i - 1)) % 128
        /\ vb.number < Pow128(Len(vb.bytes))

\* A number of three 7-bit groups, encoded and decoded.
C5_Witness ==
    /\ vb.pc = "decompressed"
    /\ Len(vb.bytes) = 3
    /\ vb.number >= 16384

----------------------------------------------------------------------------
(* ModeleBooleen *)

MaxQuery == 3

\* max of the doc ids of the index, 0 for an index without postings
BoolNumDocs(index_inverse) ==
    LET ids == UNION {index_inverse[t] : t \in DOMAIN index_inverse}
    IN IF ids = {} THEN 0 ELSE CHOOSE m \in ids : \A x \in ids : x <= m

RECURSIVE IntersectFrom(_, _, _, _)
IntersectFrom(ix, terms, i, result) ==
    IF i > Len(terms) THEN result
    ELSE IntersectFrom(ix, terms, i + 1, result \cap get_posting_list(ix, terms[i]))

RECURSIVE UnionFrom(_, _, _, _)
UnionFrom(ix, terms, i, result) ==
    IF i > Len(terms) THEN result
    ELSE UnionFrom(ix, terms, i + 1, result \cup get_posting_list(ix, terms[i]))

search_or(ix, terms) ==
    IF terms = <<>> THEN {}
    ELSE UnionFrom(ix, terms, 2, get_posting_list(ix, terms[1]))

search_and(ix, terms) ==
    IF terms = <<>> THEN {}
    ELSE IntersectFrom(ix, terms, 2, get_posting_list(ix, terms[1]))

\* The indexes a model can be given: any terms, any posting sets.
BoolIndexes == UNION {[T -> SUBSET DocIds] : T \in SUBSET Terms}

Queries == SeqsUpTo(Terms, MaxQuery)

InitBool ==
    /\ IdleIndex
    /\ bool \in {[pc |-> "new", index |-> ix, num_docs |-> 0, terms |-> q, result |-> {}] :
                    ix \in BoolIndexes, q \in Queries}
    /\ gap = Idle /\ vb = Idle /\ par = Idle /\ bm = Idle /\ rank = Idle /\ proc = Idle

BoolConstruct ==
    /\ bool.pc = "new"
    /\ bool' = [bool EXCEPT !.pc = "ready", !.num_docs = BoolNumDocs(bool.index)]
    /\ UNCHANGED <<indexVars, gap, vb, par, bm, rank, proc>>

BoolSearchAnd ==
    /\ bool.pc = "ready"
    /\ bool' = [bool EXCEPT !.pc = "searched",
                            !.result = search_and(bool.index, bool.terms)]
    /\ UNCHANGED <<indexVars, gap, vb, par, bm, rank, proc>>

NextBool == BoolConstruct \/ BoolSearchAnd

SpecBool == InitBool /\ [][NextBool]_vars

IsPermutation(p, q) ==
    /\ Len(p) = Len(q)
    /\ \E f \in [1..Len(q) -> 1..Len(q)] :
          /\ \A i, j \in 1..Len(q) : f[i] = f[j] => i = j
          /\ \A i \in 1..Len(q) : p[i] = q[f[i]]

\* C6: search_and(terms) is the set of documents in the posting list of every
\* term (an unknown term has the empty posting list), is the same for every
\* order of the terms, and is empty for the empty term list.
C6_SearchAndIsIntersection ==
    bool.pc = "searched" =>
        /\ bool.terms = <<>> => bool.result = {}
        /\ bool.terms # <<>> =>
              bool.result = {d \in DocIds : \A i \in 1..Len(bool.terms) :
                                d \in get_posting_list(bool.index, bool.terms[i])}
        /\ Len(bool.terms) = 2 =>
              bool.result = get_posting_list(bool.index, bool.terms[1])
                               \cap get_posting_list(bool.index, bool.terms[2])
        /\ \A q \in Queries :
              IsPermutation(q, bool.terms) => search_and(bool.index, q) = bool.result

\* A search for two different terms whose result is non-empty and smaller
\* than the posting list of the first term.
C6_Witness ==
    /\ bool.pc = "searched"
    /\ Len(bool.terms) = 2
    /\ bool.terms[1] # bool.terms[2]
    /\ bool.result # {}
    /\ bool.result # get_posting_list(bool.index, bool.terms[1])

----------------------------------------------------------------------------
(* CorpusProcessor.preprocess_text on texts given as sequences of the       *)
(* whitespace-separated words of the raw text                               *)

French1 == <<"le", "chat", "mange", "une", "souris">>
French2 == <<"le", "chien", "mange", "un", "os">>
French3 == <<"la", "souris", "et", "le", "chat", "jouent">>
Capitals == <<"Le", "Chat,", "l'os">>

RawTexts == {French1, French2, French3, Capitals}

\* text.lower()
Lower(w) ==
    CASE w = "Le" -> "le"
      [] w = "Chat," -> "chat,"
      [] OTHER -> w

\* re.sub(r'[^\w\s]', ' ', text) followed by the tokenizer: the words left
\* of one raw word once its punctuation has become spaces
Depunctuate(w) ==
    CASE w = "chat," -> <<"chat">>
      [] w = "l'os" -> <<"l", "os">>
      [] OTHER -> <<w>>

\* len(token)
WordLength(w) ==
    CASE w \in {"l"} -> 1
      [] w \in {"le", "la", "un", "os", "et"} -> 2
      [] w \in {"une", "the"} -> 3
      [] w \in {"chat"} -> 4
      [] w \in {"mange", "chien"} -> 5
      [] w \in {"souris", "jouent"} -> 6

\* stopwords.words('french'), the part of it the texts meet
StopWords == {"le", "la", "l", "un", "une", "et"}

\* SnowballStemmer('french').stem
Stem(w) ==
    CASE w = "mange" -> "mang"
      [] w = "souris" -> "sour"
      [] OTHER -> w

RECURSIVE Tokenize(_)
Tokenize(text) ==
    IF text = <<>> THEN <<>>
    ELSE Depunctuate(Lower(Head(text))) \o Tokenize(Tail(text))

RECURSIVE FilterTokens(_)
FilterTokens(tokens) ==
    IF tokens = <<>> THEN <<>>
    ELSE (IF Head(tokens) \notin StopWords /\ WordLength(Head(tokens)) > 2
          THEN <<Head(tokens)>> ELSE <<>>) \o FilterTokens(Tail(tokens))

preprocess_text(text) ==
    LET tokens == FilterTokens(Tokenize(text))
    IN [i \in 1..Len(tokens) |-> Stem(tokens[i])]

\* preprocess_corpus and process_document_batch: the same loop over documents
preprocess_corpus(documents) ==
    [i \in 1..Len(documents) |->
        [id |-> documents[i].id, tokens |-> preprocess_text(documents[i].text)]]

process_document_batch(doc_batch) == preprocess_corpus(doc_batch)

----------------------------------------------------------------------------
(* CorpusProcessor.__init__ for a language and an NLTK installation, and    *)
(* preprocess_text with the stopwords and the stemmer the processor has     *)

MaxWords == 2

\* SnowballStemmer.languages, three of them
StemmerLanguages == {"french", "english", "porter"}

\* the languages the stopwords corpus has a word list for
StopwordLanguages == {"french", "english"}

Languages == StemmerLanguages \cup {"klingon"}

RawWords == {"Le", "Chat,", "l'os", "mange", "souris", "une", "the"}

NormTexts == SeqsUpTo(RawWords, MaxWords)

\* stopwords.words('english'), the part of it the texts meet
EnglishStopWords == {"the"}

StopWordsOf(language) == IF language = "french" THEN StopWords ELSE EnglishStopWords

\* SnowballStemmer(language).stem
StemOf(language, w) ==
    IF language = "french" THEN Stem(w)
    ELSE CASE w = "mange" -> "mang"
           [] w = "souris" -> "souri"
           [] OTHER -> w

\* stopwords.words(language): LookupError when the corpus is not installed,
\* OSError when it has no word list for the language
stopwords_words(language, installed) ==
    IF ~installed THEN "LookupError"
    ELSE IF language \notin StopwordLanguages THEN "OSError"
    ELSE "none"

NewProcessor(language, installed) ==
    [pc |-> "new", language |-> language, installed |-> installed,
     stop_words |-> "", err |-> "none", text |-> <<>>, tokens |-> <<>>]

\* __init__: SnowballStemmer(language) raises ValueError for a language it
\* does not know (line 82, before the try); the except clause reads the
\* English stopwords, and what that raises leaves the constructor
CorpusProcessor(p) ==
    IF p.language \notin StemmerLanguages
    THEN [p EXCEPT !.pc = "raised", !.err = "ValueError"]
    ELSE IF stopwords_words(p.language, p.installed) = "none"
    THEN [p EXCEPT !.pc = "ready", !.stop_words = p.language]
    ELSE IF stopwords_words("english", p.installed) = "none"
    THEN [p EXCEPT !.pc = "ready", !.stop_words = "english"]
    ELSE [p EXCEPT !.pc = "raised", !.err = stopwords_words("english", p.installed)]

RECURSIVE FilterTokensOf(_, _)
FilterTokensOf(stop_words, tokens) ==
    IF tokens = <<>> THEN <<>>
    ELSE (IF Head(tokens) \notin stop_words /\ WordLength(Head(tokens)) > 2
          THEN <<Head(tokens)>> ELSE <<>>) \o FilterTokensOf(stop_words, Tail(tokens))

\* preprocess_text of a processor; the tokenizer and its split() fallback cut
\* these texts alike
processor_preprocess_text(p, text) ==
    LET tokens == FilterTokensOf(StopWordsOf(p.stop_words), Tokenize(text))
    IN [i \in 1..Len(tokens) |-> StemOf(p.language, tokens[i])]

InitNorm ==
    /\ IdleIndex
    /\ proc \in {NewProcessor(l, i) : l \in Languages, i \in BOOLEAN}
    /\ gap = Idle /\ vb = Idle /\ bool = Idle /\ par = Idle /\ bm = Idle /\ rank = Idle

NormConstruct ==
    /\ proc.pc = "new"
    /\ proc' = CorpusProcessor(proc)
    /\ UNCHANGED <<indexVars, gap, vb, bool, par, bm, rank>>

NormPreprocess(text) ==
    /\ proc.pc \in {"ready", "called"}
    /\ proc' = [proc EXCEPT !.pc = "called", !.text = text,
                            !.tokens = processor_preprocess_text(proc, text)]
    /\ UNCHANGED <<indexVars, gap, vb, bool, par, bm, rank>>

NextNorm ==
    \/ NormConstruct
    \/ \E text \in NormTexts : NormPreprocess(text)

SpecNorm == InitNorm /\ [][NextNorm]_vars

\* C24: constructing the processor never fails, whatever the language and
\* the installed stopwords, and preprocess_text then returns a sequence, the
\* empty one for the empty text.
C24_NormalizerNeverFails ==
    /\ proc.pc # "raised"
    /\ proc.pc = "called" => proc.tokens \in Seq(STRING)
    /\ (proc.pc = "called" /\ proc.text = <<>>) => proc.tokens = <<>>

----------------------------------------------------------------------------
(* ParallelIndexBuilder.build_index_parallel *)

MaxParDocs == 4
MaxWorkers == 4

Max(a, b) == IF a >= b THEN a ELSE b
Min(a, b) == IF a <= b THEN a ELSE b

\* The raw documents: document i of the list has id i.
RawCorpora ==
    UNION {{[i \in 1..n |-> [id |-> i, text |-> texts[i]]] : texts \in [1..n -> RawTexts]} :
              n \in 0..MaxParDocs}

\* The batches cut short after num_workers of them.
MakeBatchesOnePerWorker(documents, num_workers) ==
    LET batch_size == Max(1, Len(documents) \div num_workers)
        n == Min(num_workers, (Len(documents) + batch_size - 1) \div batch_size)
    IN [k \in 1..n |->
           SubSeq(documents, (k - 1) * batch_size + 1, Min(k * batch_size, Len(documents)))]

\* batch_size = max(1, len // num_workers); documents[i:i+batch_size] for
\* i in range(0, len, batch_size)
MakeBatches(documents, num_workers) ==
    LET batch_size == Max(1, Len(documents) \div num_workers)
        n == (Len(documents) + batch_size - 1) \div batch_size
    IN [k \in 1..n |->
           SubSeq(documents, (k - 1) * batch_size + 1, Min(k * batch_size, Len(documents)))]

RECURSIVE Flatten(_)
Flatten(results) ==
    IF results = <<>> THEN <<>> ELSE Head(results) \o Flatten(Tail(results))

TheOutcome(outcomes) == CHOOSE o \in outcomes : TRUE

InitPar ==
    /\ IdleIndex
    /\ par \in {[pc |-> "start", documents |-> docs, num_workers |-> w,
                 batches |-> <<>>, status |-> <<>>, out |-> <<>>, results |-> <<>>,
                 overtaken |-> FALSE, processed_docs |-> <<>>,
                 index |-> EmptyDict, doc_freq |-> EmptyDict] :
                   docs \in RawCorpora, w \in 1..MaxWorkers}
    /\ gap = Idle /\ vb = Idle /\ bool = Idle /\ bm = Idle /\ rank = Idle /\ proc = Idle

\* lines 449-454, and executor.map submitting one task per batch
ParPartition ==
    /\ par.pc = "start"
    /\ LET batches == MakeBatches(par.documents, par.num_workers)
       IN par' = [par EXCEPT !.pc = "map",
                             !.batches = batches,
                             !.status = [k \in 1..Len(batches) |-> "queued"],
                             !.out = [k \in 1..Len(batches) |-> <<>>]]
    /\ UNCHANGED <<indexVars, gap, vb, bool, bm, rank, proc>>

Running == {k \in 1..Len(par.status) : par.status[k] = "running"}

\* a free worker process takes the next task of the queue
ParStartTask(k) ==
    /\ par.pc \in {"map", "shutdown"}
    /\ par.status[k] = "queued"
    /\ \A j \in 1..(k - 1) : par.status[j] # "queued"
    /\ Cardinality(Running) < par.num_workers
    /\ par' = [par EXCEPT !.status[k] = "running"]
    /\ UNCHANGED <<indexVars, gap, vb, bool, bm, rank, proc>>

\* doc['text'] (line 399) raises KeyError for a document without the key
BatchOk(doc_batch) == \A i \in 1..Len(doc_batch) : "text" \in DOMAIN doc_batch[i]

\* a worker returns the result of process_document_batch
ParFinishTask(k) ==
    /\ par.pc \in {"map", "shutdown"}
    /\ par.status[k] = "running"
    /\ BatchOk(par.batches[k])
    /\ par' = [par EXCEPT !.status[k] = "done",
                          !.out[k] = process_document_batch(par.batches[k]),
                          !.overtaken = par.overtaken \/ (\E j \in Running : j < k)]
    /\ UNCHANGED <<indexVars, gap, vb, bool, bm, rank, proc>>

\* list(executor.map(...)) that leaves out the result of a task that raised
ParYieldSkipFailed ==
    /\ par.pc = "map"
    /\ Len(par.results) < Len(par.batches)
    /\ par.status[Len(par.results) + 1] \in {"done", "failed"}
    /\ par' = [par EXCEPT !.results = Append(par.results, par.out[Len(par.results) + 1])]
    /\ UNCHANGED <<indexVars, gap, vb, bool, bm, rank, proc>>

\* list(executor.map(...)) takes the results in the order of the batches
ParYield ==
    /\ par.pc = "map"
    /\ Len(par.results) < Len(par.batches)
    /\ par.status[Len(par.results) + 1] = "done"
    /\ par' = [par EXCEPT !.results = Append(par.results, par.out[Len(par.results) + 1])]
    /\ UNCHANGED <<indexVars, gap, vb, bool, bm, rank, proc>>

\* the extend loop run on the results collected so far
ParExtendEarly ==
    /\ par.pc = "map"
    /\ par.batches # <<>>
    /\ par' = [par EXCEPT !.pc = "merge", !.processed_docs = Flatten(par.results)]
    /\ UNCHANGED <<indexVars, gap, vb, bool, bm, rank, proc>>

\* the executor is shut down, and processed_docs.extend(batch_results) for
\* every batch
ParExtend ==
    /\ par.pc = "map"
    /\ Len(par.results) = Len(par.batches)
    /\ par' = [par EXCEPT !.pc = "merge", !.processed_docs = Flatten(par.results)]
    /\ UNCHANGED <<indexVars, gap, vb, bool, bm, rank, proc>>

\* index = InvertedIndex(); index.build_index(processed_docs)
ParBuildIndex ==
    /\ par.pc = "merge"
    /\ \E o \in build_index(NewIndex, par.processed_docs) :
          par' = [par EXCEPT !.pc = "done", !.index = o.index, !.doc_freq = o.doc_freq]
    /\ UNCHANGED <<indexVars, gap, vb, bool, bm, rank, proc>>

NextPar ==
    \/ ParPartition
    \/ \E k \in 1..Len(par.status) : ParStartTask(k)
    \/ \E k \in 1..Len(par.status) : ParFinishTask(k)
    \/ ParYield
    \/ ParExtend
    \/ ParBuildIndex

SpecPar == InitPar /\ [][NextPar]_vars

\* lines 505-507: sequential preprocessing followed by build_index
SequentialIndex(documents) ==
    TheOutcome(build_index(NewIndex, preprocess_corpus(documents)))

\* what build_index_parallel returns for a worker count, whatever the schedule
ParallelIndex(documents, num_workers) ==
    LET batches == MakeBatches(documents, num_workers)
        results == [k \in 1..Len(batches) |-> process_document_batch(batches[k])]
    IN TheOutcome(build_index(NewIndex, Flatten(results)))

\* C7: under every schedule of the worker tasks the index built in parallel
\* has the terms, postings and doc_freq of the index built sequentially, and
\* of the index built with any other worker count.
C7_ParallelBuildDeterministic ==
    par.pc = "done" =>
        /\ par.index = SequentialIndex(par.documents).index
        /\ par.doc_freq = SequentialIndex(par.documents).doc_freq
        /\ \A w \in 1..MaxWorkers :
              /\ par.index = ParallelIndex(par.documents, w).index
              /\ par.doc_freq = ParallelIndex(par.documents, w).doc_freq

\* A finished build of three batches of which a later one completed while an
\* earlier one was still running.
C7_Witness ==
    /\ par.pc = "done"
    /\ Len(par.batches) >= 3
    /\ par.num_workers >= 2
    /\ par.overtaken
    /\ Cardinality(DOMAIN par.index) >= 2

----------------------------------------------------------------------------
(* build_index_parallel on documents of which some have no 'text' key: the  *)
(* task of their batch raises KeyError in its worker process.               *)

MaxFailDocs == 3
MaxFailWorkers == 3

FailTexts == {French1, French2}

\* Document i has id i and either a text or no 'text' key.
FailDocuments(i) == {[id |-> i]} \cup {[id |-> i, text |-> t] : t \in FailTexts}

FailCorpora ==
    UNION {{c \in [1..n -> UNION {FailDocuments(i) : i \in 1..n}] :
               \A i \in 1..n : c[i].id = i} : n \in 0..MaxFailDocs}

InitParFail ==
    /\ IdleIndex
    /\ par \in {[pc |-> "start", documents |-> docs, num_workers |-> w,
                 batches |-> <<>>, status |-> <<>>, out |-> <<>>, results |-> <<>>,
                 overtaken |-> FALSE, processed_docs |-> <<>>,
                 index |-> EmptyDict, doc_freq |-> EmptyDict] :
                   docs \in FailCorpora, w \in 1..MaxFailWorkers}
    /\ gap = Idle /\ vb = Idle /\ bool = Idle /\ bm = Idle /\ rank = Idle /\ proc = Idle

\* process_document_batch raises in its worker: the exception is kept in the
\* future of the task
ParFailTask(k) ==
    /\ par.pc \in {"map", "shutdown"}
    /\ par.status[k] = "running"
    /\ ~BatchOk(par.batches[k])
    /\ par' = [par EXCEPT !.status[k] = "failed",
                          !.overtaken = par.overtaken \/ (\E j \in Running : j < k)]
    /\ UNCHANGED <<indexVars, gap, vb, bool, bm, rank, proc>>

Queued == {k \in 1..Len(par.status) : par.status[k] = "queued"}

\* list(executor.map(...)) reaches the result of a task that raised: the
\* exception leaves the iterator, which cancels the futures that are still
\* pending; a task already handed to the call queue cannot be cancelled
ParRaise ==
    /\ par.pc = "map"
    /\ Len(par.results) < Len(par.batches)
    /\ par.status[Len(par.results) + 1] = "failed"
    /\ \E cancelled \in SUBSET Queued :
          par' = [par EXCEPT !.pc = "shutdown",
                             !.status = [k \in 1..Len(par.status) |->
                                            IF k \in cancelled THEN "cancelled"
                                            ELSE par.status[k]]]
    /\ UNCHANGED <<indexVars, gap, vb, bool, bm, rank, proc>>

\* the with block ends by executor.shutdown(wait=True), and the exception
\* leaves build_index_parallel
ParShutdown ==
    /\ par.pc = "shutdown"
    /\ Running = {}
    /\ Queued = {}
    /\ par' = [par EXCEPT !.pc = "raised"]
    /\ UNCHANGED <<indexVars, gap, vb, bool, bm, rank, proc>>

NextParFail ==
    \/ ParPartition
    \/ \E k \in 1..Len(par.status) : ParStartTask(k)
    \/ \E k \in 1..Len(par.status) : ParFinishTask(k)
    \/ \E k \in 1..Len(par.status) : ParFailTask(k)
    \/ ParYield
    \/ ParRaise
    \/ ParShutdown
    \/ ParExtend
    \/ ParBuildIndex

\* The worker processes and the calling process all keep running.
SpecParFail == InitParFail /\ [][NextParFail]_vars /\ WF_vars(NextParFail)

SomeBatchFails == \E k \in 1..Len(par.batches) : ~BatchOk(par.batches[k])

\* C21: when the normalization of a batch fails, build_index_parallel never
\* reaches its merge step, builds no index from the other batches, and ends
\* by raising the exception.
C21_ParallelBuildFailFast ==
    /\ [](SomeBatchFails =>
             /\ par.pc \in {"map", "shutdown", "raised"}
             /\ par.processed_docs = <<>>
             /\ par.index = EmptyDict
             /\ par.doc_freq = EmptyDict)
    /\ (SomeBatchFails ~> par.pc = "raised")

\* A build that raised after the task of another batch had returned its result.
C21_Witness ==
    /\ par.pc = "raised"
    /\ \E k \in 1..Len(par.status) : par.status[k] = "done"
    /\ \E k \in 1..Len(par.status) : par.status[k] = "failed"

Settled(p) ==
    /\ Len(p.results) = Len(p.batches)
    /\ \A k \in 1..Len(p.status) : p.status[k] = "done"

\* C22: the merge step starts only when every task has returned and its
\* result has been collected; until then no step touches the index or the
\* list of processed documents, and a task writes its own result only.
C22_MergeAfterAllWorkers ==
    [][/\ par'.pc \in {"merge", "done"} => Settled(par')
       /\ ~Settled(par) =>
             /\ par'.index = par.index
             /\ par'.doc_freq = par.doc_freq
             /\ par'.processed_docs = par.processed_docs
             /\ Len(par'.out) = Len(par.out) =>
                   Cardinality({k \in 1..Len(par.out) : par'.out[k] # par.out[k]}) <= 1]_vars

\* A finished build of three batches whose tasks ran at the same time.
C22_Witness ==
    /\ par.pc = "done"
    /\ Len(par.batches) >= 3
    /\ par.overtaken
    /\ par.index # EmptyDict

\* C23: the documents are cut into exactly num_workers contiguous batches of
\* ceil(len / num_workers) documents, the last of which may be smaller.
C23_WorkerCountBatches ==
    par.pc # "start" =>
        LET len == Len(par.documents)
            size == (len + par.num_workers - 1) \div par.num_workers
        IN /\ Len(par.batches) = par.num_workers
           /\ \A k \in 1..(Len(par.batches) - 1) : Len(par.batches[k]) = size
           /\ Flatten(par.batches) = par.documents

----------------------------------------------------------------------------
(* ModeleProbabiliste (BM25).  k1 is counted in halves and b in quarters;   *)
(* scores and idf are fixed-point numbers in units of 10^-5.                *)

MaxBmDocs == 3
MaxRaises == 1
DefaultK1Halves == 3
DefaultBQuarters == 3

K1Halves == {1, DefaultK1Halves}
BQuarters == {0, DefaultBQuarters, 4}
TopKs == {1, 10}

BmQueries == {<<>>, <<"le">>, <<"chat">>, <<"chien">>, <<"Le", "Chat,">>,
              <<"souris", "chat">>, <<"jouent">>}

\* The corpora handed to the model: preprocessed documents (tp2_main
\* build_all_models), document i of the list has id i.
BmCorpora ==
    {preprocess_corpus(docs) : docs \in {c \in RawCorpora : Len(c) <= MaxBmDocs}}

FrenchCorpus ==
    preprocess_corpus(<<[id |-> 1, text |-> French1], [id |-> 2, text |-> French2],
                        [id |-> 3, text |-> French3]>>)

\* 10^5 * log10(n), rounded, for n = 1, 2, ...
Log10Table ==
    <<
      0, 30103, 47712, 60206, 69897, 77815, 84510, 90309,
      95424, 100000, 104139, 107918, 111394, 114613, 117609, 120412,
      123045, 125527, 127875, 130103, 132222, 134242, 136173, 138021,
      139794, 141497, 143136, 144716, 146240, 147712, 149136, 150515,
      151851, 153148, 154407, 155630, 156820, 157978, 159106, 160206,
      161278, 162325, 163347, 164345, 165321, 166276, 167210, 168124,
      169020, 169897, 170757, 171600, 172428, 173239, 174036, 174819,
      175587, 176343, 177085, 177815, 178533, 179239, 179934, 180618,
      181291, 181954, 182607, 183251, 183885, 184510, 185126, 185733,
      186332, 186923, 187506, 188081, 188649, 189209, 189763, 190309,
      190849, 191381, 191908, 192428, 192942, 193450, 193952, 194448,
      194939, 195424, 195904, 196379, 196848, 197313, 197772, 198227,
      198677, 199123, 199564, 200000, 200432, 200860, 201284, 201703,
      202119, 202531, 202938, 203342, 203743, 204139, 204532, 204922,
      205308, 205690, 206070, 206446, 206819, 207188, 207555, 207918,
      208279, 208636, 208991, 209342, 209691, 210037, 210380, 210721,
      211059, 211394, 211727, 212057, 212385, 212710, 213033, 213354,
      213672, 213988, 214301, 214613, 214922, 215229, 215534, 215836,
      216137, 216435, 216732, 217026, 217319, 217609, 217898, 218184,
      218469, 218752, 219033, 219312, 219590, 219866, 220140, 220412,
      220683, 220952, 221219, 221484, 221748, 222011, 222272, 222531,
      222789, 223045, 223300, 223553, 223805, 224055, 224304, 224551,
      224797, 225042, 225285, 225527, 225768, 226007, 226245, 226482,
      226717, 226951, 227184, 227416, 227646, 227875, 228103, 228330,
      228556, 228780, 229003, 229226, 229447, 229667, 229885, 230103,
      230320, 230535, 230750, 230963, 231175, 231387, 231597, 231806,
      232015, 232222, 232428, 232634, 232838, 233041, 233244, 233445,
      233646, 233846, 234044, 234242, 234439, 234635, 234830, 235025,
      235218, 235411, 235603, 235793, 235984, 236173, 236361, 236549,
      236736, 236922, 237107, 237291, 237475, 237658, 237840, 238021,
      238202, 238382, 238561, 238739, 238917, 239094, 239270, 239445,
      239620, 239794, 239967, 240140, 240312, 240483, 240654, 240824
    >>

Log10E5(n) == Log10Table[n]

\* rounding toward zero of a quotient with positive divisor
Quotient(x, d) == IF x < 0 THEN 0 - ((0 - x) \div d) ELSE x \div d

\* the loop over the tokens of one document (lines 43-47)
RECURSIVE CountTokens(_, _, _)
CountTokens(st, doc_id, tokens) ==
    IF tokens = <<>> THEN st
    ELSE LET token == Head(tokens)
             row == st.tf[doc_id]
             seen == token \in DOMAIN row
             row2 == Put(row, token, (IF seen THEN row[token] ELSE 0) + 1)
             df2 == IF seen THEN st.df
                    ELSE Put(st.df, token, Get(st.df, token, 0) + 1)
         IN CountTokens([st EXCEPT !.tf = Put(st.tf, doc_id, row2), !.df = df2],
                        doc_id, Tail(tokens))

\* the loop over the documents (lines 38-47); self.tf[doc_id] comes into
\* being at the first token of the document
RECURSIVE CountDocuments(_, _)
CountDocuments(st, documents) ==
    IF documents = <<>> THEN st
    ELSE LET doc == Head(documents)
             st1 == [st EXCEPT !.doc_lengths = Put(st.doc_lengths, doc.id, Len(doc.tokens)),
                               !.tf = IF doc.tokens = <<>> \/ doc.id \in DOMAIN st.tf
                                      THEN st.tf ELSE Put(st.tf, doc.id, EmptyDict)]
         IN CountDocuments(CountTokens(st1, doc.id, doc.tokens), Tail(documents))

RECURSIVE SumOver(_, _)
SumOver(f, keys) ==
    IF keys = {} THEN 0
    ELSE LET k == CHOOSE x \in keys : TRUE IN f[k] + SumOver(f, keys \ {k})

\* ModeleProbabiliste.__init__; avg_doc_length is kept as the pair of the sum
\* of the lengths and the number of lengths
ModeleProbabiliste(index_inverse, documents, k1, b) ==
    LET st == CountDocuments([tf |-> EmptyDict, df |-> EmptyDict, doc_lengths |-> EmptyDict],
                             documents)
    IN [index |-> index_inverse, documents |-> documents, num_docs |-> Len(documents),
        k1 |-> k1, b |-> b, tf |-> st.tf, df |-> st.df, doc_lengths |-> st.doc_lengths,
        total_length |-> SumOver(st.doc_lengths, DOMAIN st.doc_lengths),
        num_lengths |-> Cardinality(DOMAIN st.doc_lengths)]

\* _compute_idf
compute_idf(model, term) ==
    IF Get(model.df, term, 0) = 0 THEN 0
    ELSE Log10E5(2 * (model.num_docs - model.df[term]) + 1) - Log10E5(2 * model.df[term] + 1)

\* idf * (tf * (k1 + 1)) / (tf + k1 * (1 - b + b * dl / max(avg, 1))), with
\* numerator and denominator of the fraction multiplied by 8 * max(sum, count)
bm25_of(idf, tf, doc_length, model) ==
    LET a == Max(model.total_length, model.num_lengths)
        numerator == tf * (model.k1 + 2) * 4 * a
        denominator == 8 * a * tf
                       + model.k1 * ((4 - model.b) * a + model.b * doc_length * model.num_lengths)
    IN Quotient(idf * numerator, denominator)

\* _compute_bm25_score
compute_bm25_score(model, doc_id, term) ==
    IF term \notin DOMAIN Get(model.tf, doc_id, EmptyDict) THEN 0
    ELSE bm25_of(compute_idf(model, term), model.tf[doc_id][term],
                 model.doc_lengths[doc_id], model)

\* reading self.tf[doc_id] of the defaultdict makes the row of a document
\* that has none
TouchTf(model, doc_id) ==
    IF doc_id \in DOMAIN model.tf THEN model
    ELSE [model EXCEPT !.tf = Put(model.tf, doc_id, EmptyDict)]

\* the keys of doc_scores in the order of their insertion; a posting set of
\* small integers is iterated in increasing order
RECURSIVE AppendNew(_, _)
AppendNew(seq, ids) ==
    IF ids = <<>> THEN seq
    ELSE AppendNew(IF Head(ids) \in ToSet(seq) THEN seq ELSE Append(seq, Head(ids)), Tail(ids))

RECURSIVE ScoredDocs(_, _, _)
ScoredDocs(model, query_terms, seq) ==
    IF query_terms = <<>> THEN seq
    ELSE ScoredDocs(model, Tail(query_terms),
                    IF Head(query_terms) \in DOMAIN model.index
                    THEN AppendNew(seq, SortedList(model.index[Head(query_terms)]))
                    ELSE seq)

\* doc_scores[doc_id]: one addition for every occurrence in the query of a
\* term whose posting set holds the document
RECURSIVE DocScore(_, _, _)
DocScore(model, doc_id, query_terms) ==
    IF query_terms = <<>> THEN 0
    ELSE (IF Head(query_terms) \in DOMAIN model.index
             /\ doc_id \in model.index[Head(query_terms)]
          THEN compute_bm25_score(model, doc_id, Head(query_terms)) ELSE 0)
         + DocScore(model, doc_id, Tail(query_terms))

\* An insertion that keeps the order of arrival instead of sorting.
InsertAtEnd(sorted, item) == Append(sorted, item)

\* sorted(..., key=score, reverse=True) is stable: an item goes behind the
\* items whose score is not below its own
RECURSIVE InsertByScore(_, _)
InsertByScore(sorted, item) ==
    IF sorted = <<>> THEN <<item>>
    ELSE IF Head(sorted)[2] >= item[2] THEN <<Head(sorted)>> \o InsertByScore(Tail(sorted), item)
    ELSE <<item>> \o sorted

RECURSIVE SortByScore(_, _)
SortByScore(sorted, items) ==
    IF items = <<>> THEN sorted
    ELSE SortByScore(InsertByScore(sorted, Head(items)), Tail(items))

\* scores[:top_k]
Slice(seq, top_k) ==
    IF top_k >= 0 THEN SubSeq(seq, 1, Min(top_k, Len(seq)))
    ELSE SubSeq(seq, 1, Max(0, Len(seq) + top_k))

\* ModeleProbabiliste.search
bm25_search(model, query, top_k) ==
    LET query_terms == preprocess_text(query)
        docs == ScoredDocs(model, query_terms, <<>>)
        items == [i \in 1..Len(docs) |-> <<docs[i], DocScore(model, docs[i], query_terms)>>]
    IN IF query_terms = <<>> THEN <<>>
       ELSE Slice(SortByScore(<<>>, items), top_k)

\* A filter that keeps the pairs of score zero too.
RECURSIVE NotNegative(_)
NotNegative(results) ==
    IF results = <<>> THEN <<>>
    ELSE (IF Head(results)[2] >= 0 THEN <<Head(results)[1]>> ELSE <<>>)
         \o NotNegative(Tail(results))

RECURSIVE Positive(_)
Positive(results) ==
    IF results = <<>> THEN <<>>
    ELSE (IF Head(results)[2] > 0 THEN <<Head(results)[1]>> ELSE <<>>) \o Positive(Tail(results))

\* ModeleProbabiliste.get_results_ranked
get_results_ranked(model, query, top_k) == Positive(bm25_search(model, query, top_k))

\* tp2_main build_all_models: the index built from the preprocessed documents
\* and the model on that index and those documents
BuildModel(documents, k1, b) ==
    ModeleProbabiliste(TheOutcome(build_index(NewIndex, documents)).index, documents, k1, b)

None == [doc |-> 0]

BmState(model, op) ==
    [pc |-> "ready", op |-> op, model |-> model, query |-> <<>>, top_k |-> 0,
     results |-> <<>>, ranked |-> <<>>, scored |-> <<>>, score |-> 0, before |-> None,
     raises |-> 0]

InitBM25 ==
    /\ IdleIndex
    /\ bm \in {BmState(BuildModel(c, k1, b), "construct") :
                  c \in BmCorpora, k1 \in K1Halves, b \in BQuarters}
    /\ gap = Idle /\ vb = Idle /\ bool = Idle /\ par = Idle /\ rank = Idle /\ proc = Idle

BmSearch(query, top_k) ==
    /\ bm.pc = "ready"
    /\ bm' = [BmState(bm.model, "search") EXCEPT
                 !.query = query, !.top_k = top_k, !.before = bm.before, !.raises = bm.raises,
                 !.results = bm25_search(bm.model, query, top_k)]
    /\ UNCHANGED <<indexVars, gap, vb, bool, par, rank, proc>>

BmGetResultsRanked(query, top_k) ==
    /\ bm.pc = "ready"
    /\ bm' = [BmState(bm.model, "get_results_ranked") EXCEPT
                 !.query = query, !.top_k = top_k, !.before = bm.before, !.raises = bm.raises,
                 !.ranked = get_results_ranked(bm.model, query, top_k)]
    /\ UNCHANGED <<indexVars, gap, vb, bool, par, rank, proc>>

BmComputeScore(doc_id, term) ==
    /\ bm.pc = "ready"
    /\ bm' = [BmState(TouchTf(bm.model, doc_id), "compute_bm25_score") EXCEPT
                 !.scored = <<doc_id, term>>, !.before = bm.before, !.raises = bm.raises,
                 !.score = compute_bm25_score(bm.model, doc_id, term)]
    /\ UNCHANGED <<indexVars, gap, vb, bool, par, rank, proc>>

\* the document with the token at a position replaced by the term
ReplaceToken(documents, doc_id, pos, term) ==
    [i \in 1..Len(documents) |->
        IF documents[i].id = doc_id
        THEN [documents[i] EXCEPT !.tokens[pos] = term]
        ELSE documents[i]]

\* The models are built again on the corpus in which one more token of the
\* scored document is the scored term: its count in the document goes up by
\* one, the length of the document and the other statistics of the term stay.
BmRaiseTf(pos) ==
    /\ bm.pc = "ready"
    /\ bm.op = "compute_bm25_score"
    /\ bm.raises < MaxRaises
    /\ LET doc_id == bm.scored[1]
           term == bm.scored[2]
       IN /\ doc_id \in DOMAIN bm.model.tf
          /\ term \in DOMAIN bm.model.tf[doc_id]
          /\ \E i \in 1..Len(bm.model.documents) :
                /\ bm.model.documents[i].id = doc_id
                /\ pos \in 1..Len(bm.model.documents[i].tokens)
                /\ bm.model.documents[i].tokens[pos] # term
          /\ bm' = [BmState(BuildModel(ReplaceToken(bm.model.documents, doc_id, pos, term),
                                       bm.model.k1, bm.model.b), "construct") EXCEPT
                       !.raises = bm.raises + 1,
                       !.before = [doc |-> doc_id, term |-> term,
                                   tf |-> bm.model.tf[doc_id][term],
                                   df |-> bm.model.df[term],
                                   score |-> bm.score]]
    /\ UNCHANGED <<indexVars, gap, vb, bool, par, rank, proc>>

BmDocIds == 1..MaxBmDocs
BmTerms == {"chat", "chien", "mang", "sour", "jouent"}
MaxBmTokens == 3

NextBM25 ==
    \/ \E q \in BmQueries, k \in TopKs : BmSearch(q, k)
    \/ \E q \in BmQueries, k \in TopKs : BmGetResultsRanked(q, k)
    \/ \E d \in BmDocIds, t \in BmTerms : BmComputeScore(d, t)
    \/ \E pos \in 1..MaxBmTokens : BmRaiseTf(pos)

SpecBM25 == InitBM25 /\ [][NextBM25]_vars

\* C9: on the French corpus the ranked output of BM25 for the query chat
\* holds doc1 and doc3 and does not hold doc2.
C9_FrenchChatRanksDoc1Doc3 ==
    (/\ bm.pc = "ready"
     /\ bm.op = "get_results_ranked"
     /\ bm.model.documents = FrenchCorpus
     /\ bm.query = <<"chat">>
     /\ bm.top_k >= 3)
    => (/\ 1 \in ToSet(bm.ranked)
        /\ 3 \in ToSet(bm.ranked)
        /\ 2 \notin ToSet(bm.ranked))

\* C10: when the count of a term in a document is raised with the length of
\* the document and the other statistics fixed, the BM25 score of the term in
\* the document is not below the score before.
C10_TfMonotone ==
    (/\ bm.pc = "ready"
     /\ bm.op = "compute_bm25_score"
     /\ bm.before # None
     /\ bm.scored = <<bm.before.doc, bm.before.term>>)
    => bm.score >= bm.before.score

----------------------------------------------------------------------------
(* decompress_variable_byte on byte streams that no encoder produced *)

MaxStreamLen == 3

StreamBytes == {0, 1, 127, 128, 129, 255}

ByteStreams == SeqsUpTo(StreamBytes, MaxStreamLen)

\* The call of the decoder as its caller sees it: the loop has no raise and
\* the value accumulated so far is returned when the bytes run out.
decode_stream(byte_data) ==
    [value |-> decompress_variable_byte(byte_data), err |-> "none"]

InitVbStream ==
    /\ IdleIndex
    /\ vb \in {[pc |-> "stream", bytes |-> bs, decoded |-> 0, err |-> "none"] :
                  bs \in ByteStreams}
    /\ gap = Idle /\ bool = Idle /\ par = Idle /\ bm = Idle /\ rank = Idle /\ proc = Idle

VbDecodeStream ==
    /\ vb.pc = "stream"
    /\ LET r == decode_stream(vb.bytes)
       IN vb' = [vb EXCEPT !.pc = "decoded", !.decoded = r.value, !.err = r.err]
    /\ UNCHANGED <<indexVars, gap, bool, par, bm, rank, proc>>

NextVbStream == VbDecodeStream

SpecVbStream == InitVbStream /\ [][NextVbStream]_vars

\* no byte of the stream ends a number
NoTerminator(byte_data) == \A i \in 1..Len(byte_data) : byte_data[i] >= ContinuationBit

\* C20: decoding an empty byte sequence, or one in which every byte has the
\* continuation bit set, reports an error instead of returning an integer.
C20_MalformedStreamFails ==
    (vb.pc = "decoded" /\ NoTerminator(vb.bytes)) => vb.err # "none"

----------------------------------------------------------------------------
(* ModeleLangue.  lambda is counted in quarters; probabilities are exact    *)
(* fractions and log-probabilities fixed-point numbers in units of 10^-5.   *)

DefaultLambdaQuarters == 2
FloorE5 == 0 - 1000000

LambdaQuarters == {0, DefaultLambdaQuarters, 4}

RECURSIVE GCD(_, _)
GCD(a, b) == IF b = 0 THEN a ELSE GCD(b, a % b)

\* the loop over the tokens of one document (lines 44-47)
RECURSIVE LmCountTokens(_, _, _)
LmCountTokens(st, doc_id, tokens) ==
    IF tokens = <<>> THEN st
    ELSE LET token == Head(tokens)
             row == Get(st.tf, doc_id, EmptyDict)
         IN LmCountTokens(
                [st EXCEPT !.tf = Put(st.tf, doc_id, Put(row, token, Get(row, token, 0) + 1)),
                           !.collection_tf = Put(st.collection_tf, token,
                                                 Get(st.collection_tf, token, 0) + 1),
                           !.collection_length = st.collection_length + 1],
                doc_id, Tail(tokens))

\* the loop over the documents (lines 38-47)
RECURSIVE LmCountDocuments(_, _)
LmCountDocuments(st, documents) ==
    IF documents = <<>> THEN st
    ELSE LET doc == Head(documents)
             st1 == [st EXCEPT !.doc_lengths = Put(st.doc_lengths, doc.id, Len(doc.tokens))]
         IN LmCountDocuments(LmCountTokens(st1, doc.id, doc.tokens), Tail(documents))

\* ModeleLangue.__init__; collection_prob[term] is the fraction
\* collection_tf[term] / max(collection_length, 1)
ModeleLangue(index_inverse, documents, lambda_param) ==
    LET st == LmCountDocuments([tf |-> EmptyDict, doc_lengths |-> EmptyDict,
                                collection_tf |-> EmptyDict, collection_length |-> 0],
                               documents)
    IN [index |-> index_inverse, documents |-> documents, num_docs |-> Len(documents),
        lambda_param |-> lambda_param, tf |-> st.tf, doc_lengths |-> st.doc_lengths,
        collection_tf |-> st.collection_tf, collection_length |-> st.collection_length,
        collection_prob |-> [t \in DOMAIN st.collection_tf |->
                                [num |-> st.collection_tf[t],
                                 den |-> Max(st.collection_length, 1)]]]

\* _compute_term_probability: lambda * doc_prob + (1 - lambda) * collection_prob
compute_term_probability(model, doc_id, term) ==
    LET doc_length == model.doc_lengths[doc_id]
        count == Get(Get(model.tf, doc_id, EmptyDict), term, 0)
        cp == Get(model.collection_prob, term,
                  [num |-> 1, den |-> Max(model.collection_length, 1)])
    IN IF doc_length = 0
       THEN [num |-> (4 - model.lambda_param) * cp.num, den |-> 4 * cp.den]
       ELSE [num |-> model.lambda_param * count * cp.den
                     + (4 - model.lambda_param) * cp.num * doc_length,
             den |-> 4 * doc_length * cp.den]

\* reading self.tf[doc_id][term] of the nested defaultdict stores a count of 0
\* for a term the document has none of (line 65, when the length is not 0)
LmTouchTf(model, doc_id, term) ==
    IF model.doc_lengths[doc_id] = 0 THEN model
    ELSE LET row == Get(model.tf, doc_id, EmptyDict)
         IN [model EXCEPT !.tf = Put(model.tf, doc_id, Put(row, term, Get(row, term, 0)))]

\* the amount added to the score for one term (lines 104-109)
LmContribution(model, doc_id, term) ==
    LET prob == compute_term_probability(model, doc_id, term)
        g == GCD(prob.num, prob.den)
    IN IF prob.num > 0 THEN Log10E5(prob.num \div g) - Log10E5(prob.den \div g)
       ELSE FloorE5

RECURSIVE LmDocScore(_, _, _)
LmDocScore(model, doc_id, query_terms) ==
    IF query_terms = <<>> THEN 0
    ELSE LmContribution(model, doc_id, Head(query_terms))
         + LmDocScore(model, doc_id, Tail(query_terms))

\* doc_scores[doc_id] = score of a dict: a key keeps the place of its first
\* insertion and takes the value of the last
PutItem(items, key, value) ==
    IF \E j \in 1..Len(items) : items[j][1] = key
    THEN [j \in 1..Len(items) |-> IF items[j][1] = key THEN <<key, value>> ELSE items[j]]
    ELSE Append(items, <<key, value>>)

RECURSIVE LmScores(_, _, _, _)
LmScores(model, documents, query_terms, items) ==
    IF documents = <<>> THEN items
    ELSE LmScores(model, Tail(documents), query_terms,
                  PutItem(items, Head(documents).id,
                          LmDocScore(model, Head(documents).id, query_terms)))

\* the reduced fraction
Reduced(f) ==
    LET g == GCD(f.num, f.den)
    IN [num |-> f.num \div g, den |-> f.den \div g]

\* the probabilities whose logarithms are added up for one document
LmTermProbabilities(model, doc_id, query_terms) ==
    [i \in 1..Len(query_terms) |->
        Reduced(compute_term_probability(model, doc_id, query_terms[i]))]

\* The scores are sums of float logarithms.  Two documents with the same
\* probability for every query term get the same float; two documents whose
\* products of probabilities are equal but whose probabilities differ get
\* floats that agree up to the last place only, and the rounding of log10 and
\* of the sum decides which is the larger.  A last place per document stands
\* for that rounding: every assignment that gives documents of equal
\* probabilities the same last place.
LmLastPlaces(model, query_terms, items) ==
    LET n == Len(items)
        Same(i, j) == LmTermProbabilities(model, items[i][1], query_terms)
                         = LmTermProbabilities(model, items[j][1], query_terms)
    IN IF \A i, j \in 1..n : items[i][2] = items[j][2] => Same(i, j)
       THEN {[i \in 1..n |-> 0]}
       ELSE {u \in [1..n -> 0..(n - 1)] : \A i, j \in 1..n : Same(i, j) => u[i] = u[j]}

\* sorted(doc_scores.items(), key=score, reverse=True) on the floats: the
\* stable sort by score, then last place
LmSorted(items, u) ==
    LET n == Len(items)
        order == SortByScore(<<>>, [i \in 1..n |-> <<i, items[i][2] * n + u[i]>>])
    IN [k \in 1..n |-> items[order[k][1]]]

\* the lists search can return for the terms of a query
LmRanked(model, query_terms, top_k) ==
    LET items == LmScores(model, model.documents, query_terms, <<>>)
    IN {Slice(LmSorted(items, u), top_k) : u \in LmLastPlaces(model, query_terms, items)}

\* The search without the early return for a query of no term.
lm_search_unguarded(model, query, top_k) ==
    LmRanked(model, preprocess_text(query), top_k)

\* ModeleLangue.search, the values it can return
lm_search(model, query, top_k) ==
    LET query_terms == preprocess_text(query)
    IN IF query_terms = <<>> THEN {<<>>}
       ELSE LmRanked(model, query_terms, top_k)

RECURSIVE LmTouchTerms(_, _, _)
LmTouchTerms(model, doc_id, query_terms) ==
    IF query_terms = <<>> THEN model
    ELSE LmTouchTerms(LmTouchTf(model, doc_id, Head(query_terms)), doc_id, Tail(query_terms))

RECURSIVE LmTouchDocuments(_, _, _)
LmTouchDocuments(model, documents, query_terms) ==
    IF documents = <<>> THEN model
    ELSE LmTouchDocuments(LmTouchTerms(model, Head(documents).id, query_terms),
                          Tail(documents), query_terms)

\* ModeleLangue.search, the model it leaves
lm_after_search(model, query) ==
    LmTouchDocuments(model, model.documents, preprocess_text(query))

DocIdsOf(results) == [i \in 1..Len(results) |-> results[i][1]]

\* A ranked list that keeps the documents of positive score only.
lm_get_results_ranked_positive(model, query, top_k) ==
    {[results |-> r, ranked |-> Positive(r)] : r \in lm_search(model, query, top_k)}

\* ModeleLangue.get_results_ranked: the list search returned and the doc ids
\* taken from it
lm_get_results_ranked(model, query, top_k) ==
    {[results |-> r, ranked |-> DocIdsOf(r)] : r \in lm_search(model, query, top_k)}

----------------------------------------------------------------------------
(* ModeleVectoriel.  A vector is a function on the vocabulary; weights and   *)
(* components are fixed-point numbers in units of 10^-4, similarities in    *)
(* units of 10^-8.                                                          *)

\* the integer square root, by bisection
RECURSIVE SqrtBetween(_, _, _)
SqrtBetween(x, lo, hi) ==
    IF hi - lo <= 1 THEN lo
    ELSE LET mid == (lo + hi) \div 2
         IN IF mid * mid <= x THEN SqrtBetween(x, mid, hi) ELSE SqrtBetween(x, lo, mid)

ISqrt(x) == SqrtBetween(x, 0, Min(x, 46340) + 1)

\* the loop over the tokens of one document (lines 42-46)
RECURSIVE VsCountTokens(_, _, _, _)
VsCountTokens(st, vocabulary, doc_id, tokens) ==
    IF tokens = <<>> THEN st
    ELSE LET token == Head(tokens)
             row == Get(st.tf, doc_id, EmptyDict)
             seen == token \in DOMAIN row
         IN IF token \notin vocabulary
            THEN VsCountTokens(st, vocabulary, doc_id, Tail(tokens))
            ELSE VsCountTokens(
                    [st EXCEPT !.tf = Put(st.tf, doc_id,
                                          Put(row, token, Get(row, token, 0) + 1)),
                               !.df = IF seen THEN st.df
                                      ELSE Put(st.df, token, Get(st.df, token, 0) + 1)],
                    vocabulary, doc_id, Tail(tokens))

RECURSIVE VsCountDocuments(_, _, _)
VsCountDocuments(st, vocabulary, documents) ==
    IF documents = <<>> THEN st
    ELSE VsCountDocuments(
            VsCountTokens(st, vocabulary, Head(documents).id, Head(documents).tokens),
            vocabulary, Tail(documents))

\* (1 + log10(count)) * log10(num_docs / max(df, 1))
TfIdf(count, df, num_docs) ==
    LET tf_value == (100000 + Log10E5(count)) \div 10
        idf_value == (Log10E5(num_docs) - Log10E5(Max(df, 1))) \div 10
    IN (tf_value * idf_value) \div 10000

\* vector / np.linalg.norm(vector) when the norm is above 0
Normalize(vector) ==
    LET squares == [t \in DOMAIN vector |-> vector[t] * vector[t]]
        norm == ISqrt(SumOver(squares, DOMAIN vector))
    IN IF norm > 0 THEN [t \in DOMAIN vector |-> (vector[t] * 10000) \div norm]
       ELSE vector

\* one round of the loop of _compute_tfidf_vectors: the vector of a document
DocVector(model, doc_id) ==
    LET row == Get(model.tf, doc_id, EmptyDict)
    IN Normalize([t \in model.vocabulary |->
                     IF t \in DOMAIN row
                     THEN TfIdf(row[t], Get(model.df, t, 0), model.num_docs)
                     ELSE 0])

\* _compute_tfidf_vectors: `term in self.tf[doc_id]` makes the row of a
\* document that has none, and doc_vectors keeps the order of the documents
RECURSIVE ComputeTfidfVectors(_, _)
ComputeTfidfVectors(model, documents) ==
    IF documents = <<>> THEN model
    ELSE LET doc_id == Head(documents).id
             m1 == IF model.vocabulary = {} \/ doc_id \in DOMAIN model.tf THEN model
                   ELSE [model EXCEPT !.tf = Put(model.tf, doc_id, EmptyDict)]
             m2 == [m1 EXCEPT !.doc_vectors = PutItem(m1.doc_vectors, doc_id,
                                                      DocVector(m1, doc_id))]
         IN ComputeTfidfVectors(m2, Tail(documents))

\* ModeleVectoriel.__init__; the vocabulary is a copy of the keys of the index
ModeleVectoriel(index_inverse, documents) ==
    LET vocabulary == DOMAIN index_inverse
        st == VsCountDocuments([tf |-> EmptyDict, df |-> EmptyDict], vocabulary, documents)
    IN ComputeTfidfVectors(
          [index |-> index_inverse, documents |-> documents, num_docs |-> Len(documents),
           vocabulary |-> vocabulary, tf |-> st.tf, df |-> st.df, doc_vectors |-> <<>>],
          documents)

\* query_tf[term]: the occurrences in the query of a term of the vocabulary
QueryCount(query_terms, term) ==
    Cardinality({i \in 1..Len(query_terms) : query_terms[i] = term})

\* _compute_query_vector
compute_query_vector(model, query_terms) ==
    Normalize([t \in model.vocabulary |->
                  IF t \in ToSet(query_terms)
                  THEN TfIdf(QueryCount(query_terms, t), Get(model.df, t, 0), model.num_docs)
                  ELSE 0])

\* np.dot
Dot(u, v) == SumOver([t \in DOMAIN u |-> u[t] * v[t]], DOMAIN u)

\* ModeleVectoriel.search
vs_search(model, query, top_k) ==
    LET query_terms == preprocess_text(query)
        query_vector == compute_query_vector(model, query_terms)
        scores == [i \in 1..Len(model.doc_vectors) |->
                      <<model.doc_vectors[i][1], Dot(query_vector, model.doc_vectors[i][2])>>]
    IN IF query_terms = <<>> THEN <<>>
       ELSE Slice(SortByScore(<<>>, scores), top_k)

\* reading self.df[term] of the defaultdict for a term of the vocabulary that
\* no document holds stores a count of 0 (line 93)
RECURSIVE VsTouchDf(_, _)
VsTouchDf(model, query_terms) ==
    IF query_terms = <<>> THEN model
    ELSE LET t == Head(query_terms)
         IN VsTouchDf(IF t \in model.vocabulary /\ t \notin DOMAIN model.df
                      THEN [model EXCEPT !.df = Put(model.df, t, 0)] ELSE model,
                      Tail(query_terms))

\* ModeleVectoriel.search, the model it leaves
vs_after_search(model, query) == VsTouchDf(model, preprocess_text(query))

\* ModeleVectoriel.get_results_ranked
vs_get_results_ranked(model, query, top_k) == Positive(vs_search(model, query, top_k))

----------------------------------------------------------------------------
(* An index, the four models that build_all_models makes on it, at most one *)
(* maintenance operation on the index, and one call of a search method.     *)

MaxRankDocs == 3

\* an id the corpus has (when it is not empty) and one it does not have
RankDocIds == {1, MaxRankDocs + 1}

RankQueries == {<<>>, <<"le">>, <<"chat">>, <<"chien", "chat">>, <<"os", "jouent">>}

RankTopKs == {0 - 1, 0, 1, 2, 10}

RankTokenLists == {<<"chat">>, <<"chien", "mang">>}

RankTexts == {French1, French2, Capitals}

\* The raw corpora: n documents with the ids 1..n, supplied in increasing or
\* in decreasing order of id.
RankRawCorpora ==
    UNION {{[i \in 1..n |-> [id |-> IF up THEN i ELSE n + 1 - i, text |-> texts[i]]] :
               texts \in [1..n -> RankTexts], up \in BOOLEAN} : n \in 0..MaxRankDocs}

\* InvertedIndex.search
index_search(ix, query) ==
    LET query_tokens == preprocess_text(query)
    IN IF query_tokens = <<>> THEN {}
       ELSE IntersectFrom(ix, query_tokens, 2, get_posting_list(ix, query_tokens[1]))

\* ModeleBooleen.__init__ and ModeleBooleen.search
ModeleBooleen(index_inverse) ==
    [index |-> index_inverse, num_docs |-> BoolNumDocs(index_inverse)]

bool_search(model, query) ==
    LET query_terms == preprocess_text(query)
    IN IF query_terms = <<>> THEN {} ELSE search_and(model.index, query_terms)

\* ModeleProbabiliste.search, the model it leaves: self.tf[doc_id] is read for
\* every document of the posting set of a query term
RECURSIVE BmTouchDocs(_, _)
BmTouchDocs(model, doc_ids) ==
    IF doc_ids = <<>> THEN model
    ELSE BmTouchDocs(TouchTf(model, Head(doc_ids)), Tail(doc_ids))

RECURSIVE BmTouchTerms(_, _)
BmTouchTerms(model, query_terms) ==
    IF query_terms = <<>> THEN model
    ELSE BmTouchTerms(IF Head(query_terms) \in DOMAIN model.index
                      THEN BmTouchDocs(model, SortedList(model.index[Head(query_terms)]))
                      ELSE model,
                      Tail(query_terms))

bm25_after_search(model, query) == BmTouchTerms(model, preprocess_text(query))

\* tp2_main build_all_models: one index, handed to the four models
BuildAllModels(documents, lambda_param) ==
    LET processed_docs == preprocess_corpus(documents)
        o == TheOutcome(build_index(NewIndex, processed_docs))
    IN [pc |-> "built", op |-> "build_all_models", ix |-> o, index0 |-> o.index,
        docs |-> processed_docs,
        bool |-> ModeleBooleen(o.index),
        vs |-> ModeleVectoriel(o.index, processed_docs),
        bm25 |-> ModeleProbabiliste(o.index, processed_docs, DefaultK1Halves, DefaultBQuarters),
        lm |-> ModeleLangue(o.index, processed_docs, lambda_param),
        query |-> <<>>, top_k |-> 0, results |-> <<>>, ranked |-> <<>>, found |-> {}]

InitRank ==
    /\ IdleIndex
    /\ rank \in {BuildAllModels(docs, l) : docs \in RankRawCorpora, l \in LambdaQuarters}
    /\ gap = Idle /\ vb = Idle /\ bool = Idle /\ par = Idle /\ bm = Idle /\ proc = Idle

\* The models hold the dict of the index itself: an operation that changes the
\* dict in place changes the index attribute of every model.
Mutated(o, op) ==
    [rank EXCEPT !.pc = "mutated", !.op = op, !.ix = o,
                 !.bool.index = o.index, !.vs.index = o.index,
                 !.bm25.index = o.index, !.lm.index = o.index]

RankAddDocument(doc_id, tokens) ==
    /\ rank.pc = "built"
    /\ \E o \in add_document(rank.ix, doc_id, tokens) : rank' = Mutated(o, "add_document")
    /\ UNCHANGED <<indexVars, gap, vb, bool, par, bm, proc>>

RankRemoveDocument(doc_id) ==
    /\ rank.pc = "built"
    /\ rank' = Mutated(remove_document(rank.ix, doc_id), "remove_document")
    /\ UNCHANGED <<indexVars, gap, vb, bool, par, bm, proc>>

RankUpdateDocument(doc_id, tokens) ==
    /\ rank.pc = "built"
    /\ \E o \in update_document(rank.ix, doc_id, tokens) :
          rank' = Mutated(o, "update_document")
    /\ UNCHANGED <<indexVars, gap, vb, bool, par, bm, proc>>

RankMergeIndexes(other) ==
    /\ rank.pc = "built"
    /\ \E o \in merge_indexes(rank.ix, other) : rank' = Mutated(o, "merge_indexes")
    /\ UNCHANGED <<indexVars, gap, vb, bool, par, bm, proc>>

RankBuildIndex(corpus) ==
    /\ rank.pc = "built"
    /\ \E o \in build_index(rank.ix, corpus) : rank' = Mutated(o, "build_index")
    /\ UNCHANGED <<indexVars, gap, vb, bool, par, bm, proc>>

Called(op, query, top_k) ==
    [rank EXCEPT !.pc = "called", !.op = op, !.query = query, !.top_k = top_k]

RankIndexSearch(query) ==
    /\ rank.pc \in {"built", "mutated"}
    /\ rank' = [Called("index_search", query, 0) EXCEPT
                   !.found = index_search(rank.ix.index, query)]
    /\ UNCHANGED <<indexVars, gap, vb, bool, par, bm, proc>>

RankBoolSearch(query) ==
    /\ rank.pc \in {"built", "mutated"}
    /\ rank' = [Called("bool_search", query, 0) EXCEPT
                   !.found = bool_search(rank.bool, query)]
    /\ UNCHANGED <<indexVars, gap, vb, bool, par, bm, proc>>

RankVsSearch(query, top_k) ==
    /\ rank.pc \in {"built", "mutated"}
    /\ rank' = [Called("vs_search", query, top_k) EXCEPT
                   !.results = vs_search(rank.vs, query, top_k),
                   !.vs = vs_after_search(rank.vs, query)]
    /\ UNCHANGED <<indexVars, gap, vb, bool, par, bm, proc>>

RankVsRanked(query, top_k) ==
    /\ rank.pc \in {"built", "mutated"}
    /\ rank' = [Called("vs_get_results_ranked", query, top_k) EXCEPT
                   !.results = vs_search(rank.vs, query, top_k),
                   !.ranked = vs_get_results_ranked(rank.vs, query, top_k),
                   !.vs = vs_after_search(rank.vs, query)]
    /\ UNCHANGED <<indexVars, gap, vb, bool, par, bm, proc>>

RankBmSearch(query, top_k) ==
    /\ rank.pc \in {"built", "mutated"}
    /\ rank' = [Called("bm25_search", query, top_k) EXCEPT
                   !.results = bm25_search(rank.bm25, query, top_k),
                   !.bm25 = bm25_after_search(rank.bm25, query)]
    /\ UNCHANGED <<indexVars, gap, vb, bool, par, bm, proc>>

RankBmRanked(query, top_k) ==
    /\ rank.pc \in {"built", "mutated"}
    /\ rank' = [Called("bm25_get_results_ranked", query, top_k) EXCEPT
                   !.results = bm25_search(rank.bm25, query, top_k),
                   !.ranked = get_results_ranked(rank.bm25, query, top_k),
                   !.bm25 = bm25_after_search(rank.bm25, query)]
    /\ UNCHANGED <<indexVars, gap, vb, bool, par, bm, proc>>

RankLmSearch(query, top_k) ==
    /\ rank.pc \in {"built", "mutated"}
    /\ \E results \in lm_search(rank.lm, query, top_k) :
          rank' = [Called("lm_search", query, top_k) EXCEPT
                      !.results = results,
                      !.lm = lm_after_search(rank.lm, query)]
    /\ UNCHANGED <<indexVars, gap, vb, bool, par, bm, proc>>

RankLmRanked(query, top_k) ==
    /\ rank.pc \in {"built", "mutated"}
    /\ \E o \in lm_get_results_ranked(rank.lm, query, top_k) :
          rank' = [Called("lm_get_results_ranked", query, top_k) EXCEPT
                      !.results = o.results,
                      !.ranked = o.ranked,
                      !.lm = lm_after_search(rank.lm, query)]
    /\ UNCHANGED <<indexVars, gap, vb, bool, par, bm, proc>>

\* the indexes merged in and the corpora built again
RankOtherIndexes == {[t \in {"chat"} |-> {MaxRankDocs + 1}],
                     [t \in {"chat", "os"} |-> {1}]}

RankCorpora == {<<>>, <<[id |-> 1, tokens |-> <<"jouent">>]>>}

NextRank ==
    \/ \E d \in RankDocIds, toks \in RankTokenLists : RankAddDocument(d, toks)
    \/ \E d \in RankDocIds : RankRemoveDocument(d)
    \/ \E d \in RankDocIds, toks \in RankTokenLists : RankUpdateDocument(d, toks)
    \/ \E other \in RankOtherIndexes : RankMergeIndexes(other)
    \/ \E corpus \in RankCorpora : RankBuildIndex(corpus)
    \/ \E q \in RankQueries : RankIndexSearch(q)
    \/ \E q \in RankQueries : RankBoolSearch(q)
    \/ \E q \in RankQueries, k \in RankTopKs : RankVsSearch(q, k)
    \/ \E q \in RankQueries, k \in RankTopKs : RankVsRanked(q, k)
    \/ \E q \in RankQueries, k \in RankTopKs : RankBmSearch(q, k)
    \/ \E q \in RankQueries, k \in RankTopKs : RankBmRanked(q, k)
    \/ \E q \in RankQueries, k \in RankTopKs : RankLmSearch(q, k)
    \/ \E q \in RankQueries, k \in RankTopKs : RankLmRanked(q, k)

SpecRank == InitRank /\ [][NextRank]_vars

----------------------------------------------------------------------------
(* Properties of the ranking models *)

Searches == {"vs_search", "bm25_search", "lm_search"}

QueryTerms == preprocess_text(rank.query)

\* the documents a search scores, with their scores
VsCandidates(model, query_terms) ==
    {<<model.doc_vectors[i][1],
       Dot(compute_query_vector(model, query_terms), model.doc_vectors[i][2])>> :
        i \in 1..Len(model.doc_vectors)}

BmCandidates(model, query_terms) ==
    {<<d, DocScore(model, d, query_terms)>> :
        d \in UNION {model.index[t] : t \in ToSet(query_terms) \cap DOMAIN model.index}}

LmCandidates(model, query_terms) ==
    {<<model.documents[i].id, LmDocScore(model, model.documents[i].id, query_terms)>> :
        i \in 1..Len(model.documents)}

Candidates ==
    CASE rank.op \in {"vs_search", "vs_get_results_ranked"} -> VsCandidates(rank.vs, QueryTerms)
      [] rank.op \in {"bm25_search", "bm25_get_results_ranked"} ->
            BmCandidates(rank.bm25, QueryTerms)
      [] rank.op \in {"lm_search", "lm_get_results_ranked"} -> LmCandidates(rank.lm, QueryTerms)

\* C11: for a query whose terms occur in no document of a non-empty
\* collection, every document's language-model score is the smoothing floor
\* log10(1e-10) once for every query term.
C11_AbsentTermAddsFloor ==
    (/\ rank.pc = "called"
     /\ rank.op = "lm_search"
     /\ rank.docs # <<>>
     /\ QueryTerms # <<>>
     /\ ToSet(QueryTerms) \cap DOMAIN rank.lm.collection_tf = {}
     /\ rank.top_k >= Len(rank.docs))
    => /\ Len(rank.results) = Len(rank.docs)
       /\ \A i \in 1..Len(rank.results) :
             rank.results[i][2] = Len(QueryTerms) * FloorE5

\* what the four models return for a query when their index is ix
SearchAll(ix, query, top_k) ==
    <<bool_search([rank.bool EXCEPT !.index = ix], query),
      vs_search([rank.vs EXCEPT !.index = ix], query, top_k),
      bm25_search([rank.bm25 EXCEPT !.index = ix], query, top_k),
      lm_search([rank.lm EXCEPT !.index = ix], query, top_k)>>

\* C12: after a maintenance operation on the index, every search on the
\* models constructed before it returns what it returned on the index as it
\* was at their construction.
C12_ModelsIgnoreIndexMutations ==
    rank.pc = "mutated" =>
        \A q \in RankQueries, k \in RankTopKs :
            SearchAll(rank.ix.index, q, k) = SearchAll(rank.index0, q, k)

Tables(r) == [bool |-> r.bool, vs |-> r.vs, bm25 |-> r.bm25, lm |-> r.lm, ix |-> r.ix]

\* C13: a call of search or get_results_ranked leaves the tables of the four
\* models and the index as they were before the call.
C13_RankingIsReadOnly ==
    [][rank'.pc = "called" => Tables(rank') = Tables(rank)]_vars

\* C14: for top_k >= 1 a search returns at most top_k entries, no document
\* twice, scores that do not increase, and the top_k best of the candidates.
C14_TopKDescending ==
    (rank.pc = "called" /\ rank.op \in Searches /\ rank.top_k >= 1 /\ QueryTerms # <<>>)
    => /\ Len(rank.results) = Min(rank.top_k, Cardinality(Candidates))
       /\ \A i \in 1..Len(rank.results) : rank.results[i] \in Candidates
       /\ \A i, j \in 1..Len(rank.results) :
             i < j => /\ rank.results[i][1] # rank.results[j][1]
                      /\ rank.results[i][2] >= rank.results[j][2]
       /\ \A c \in Candidates \ ToSet(rank.results) :
             \A i \in 1..Len(rank.results) : rank.results[i][2] >= c[2]

\* A search that left out a candidate and returned two documents of
\* different scores.
C14_Witness ==
    /\ rank.pc = "called" /\ rank.op \in Searches /\ rank.top_k >= 1
    /\ Len(rank.results) = 2
    /\ rank.results[1][2] > rank.results[2][2]
    /\ Cardinality(Candidates) = 3

\* C15: two documents of equal score are returned in increasing order of
\* doc_id.
C15_TiesAscendingDocId ==
    (rank.pc = "called" /\ rank.op \in Searches)
    => \A i, j \in 1..Len(rank.results) :
          (i < j /\ rank.results[i][2] = rank.results[j][2])
          => rank.results[i][1] < rank.results[j][1]

\* C16 as stated: every pair returned by search of the Vector-Space and BM25
\* models has a score above 0.
C16_SearchScoresPositive ==
    (rank.pc = "called" /\ rank.op \in {"vs_search", "bm25_search"})
    => \A i \in 1..Len(rank.results) : rank.results[i][2] > 0

RECURSIVE KeepPositive(_)
KeepPositive(results) ==
    IF results = <<>> THEN <<>>
    ELSE (IF Head(results)[2] > 0 THEN <<Head(results)>> ELSE <<>>)
         \o KeepPositive(Tail(results))

\* C16 amended: get_results_ranked of the Vector-Space and BM25 models returns,
\* in order, the documents of the pairs of search whose score is above 0, and
\* no document whose score is 0 or below.
C16_RankedScoresPositive ==
    (rank.pc = "called" /\ rank.op \in {"vs_get_results_ranked", "bm25_get_results_ranked"})
    => /\ rank.ranked = DocIdsOf(KeepPositive(rank.results))
       /\ \A i \in 1..Len(rank.ranked) :
             \E c \in Candidates : c[1] = rank.ranked[i] /\ c[2] > 0

\* A ranked list of the Vector-Space model that is not empty and leaves out a
\* document that search returned with score 0.
C16_Witness ==
    /\ rank.pc = "called" /\ rank.op = "vs_get_results_ranked"
    /\ rank.ranked # <<>>
    /\ \E i \in 1..Len(rank.results) :
          rank.results[i][2] = 0 /\ rank.results[i][1] \notin ToSet(rank.ranked)

\* C17: for a query of at least one term and top_k >= 1 the language model
\* scores every document of the corpus and returns min(top_k, N) of them;
\* get_results_ranked returns the same documents in the same order.
C17_LanguageScoresAllDocuments ==
    (/\ rank.pc = "called"
     /\ rank.op \in {"lm_search", "lm_get_results_ranked"}
     /\ QueryTerms # <<>>
     /\ rank.top_k >= 1)
    => /\ Len(rank.results) = Min(rank.top_k, Len(rank.docs))
       /\ \A i \in 1..Len(rank.results) : rank.results[i] \in Candidates
       /\ {c[1] : c \in Candidates} = {rank.docs[i].id : i \in 1..Len(rank.docs)}
       /\ rank.op = "lm_get_results_ranked" => rank.ranked = DocIdsOf(rank.results)

\* A ranked list of the language model with three documents, one of which
\* holds no term of the query.
C17_Witness ==
    /\ rank.pc = "called" /\ rank.op = "lm_get_results_ranked"
    /\ Len(rank.ranked) = 3
    /\ \E i \in 1..Len(rank.docs) : ToSet(rank.docs[i].tokens) \cap ToSet(QueryTerms) = {}
    /\ \A i \in 1..Len(rank.results) : rank.results[i][2] < 0

\* C18: a query that normalizes to no term gets the empty set from the index
\* and the Boolean model and the empty list from the other models.
C18_EmptyQueryEmptyResult ==
    (rank.pc = "called" /\ QueryTerms = <<>>)
    => (rank.found = {} /\ rank.results = <<>> /\ rank.ranked = <<>>)

\* A language-model search for a stop word on a corpus that has documents.
C18_Witness ==
    /\ rank.pc = "called" /\ rank.op = "lm_search"
    /\ rank.query = <<"le">> /\ rank.top_k = 10
    /\ Len(rank.docs) >= 2
    /\ rank.results = <<>>

\* C19: a search with top_k <= 0 returns the empty list.
C19_NonPositiveTopKEmpty ==
    (rank.pc = "called" /\ rank.op \in Searches /\ rank.top_k <= 0)
    => rank.results = <<>>

====
